---- MODULE Spec2Model ----
(***************************************************************************)
(* Model of the translation-resilience layer of LLMTranslator:            *)
(*   improved_translator_v3.py  (chunking, TOC/table handling, retries)   *)
(*   improved_translator_v2.py  (retries, formatted-content path)         *)
(* A text is a sequence of one-character strings.  Positions named        *)
(* "offset" are Python offsets (0-based, the number of characters before  *)
(* the position); TLA+ sequences are indexed from 1.  A character outside *)
(* ASCII is written as the letter u and its code point: "u76EE" is U+76EE. *)
(***************************************************************************)
EXTENDS Integers, Sequences, FiniteSets, TLC

(***************************************************************************)
(* Bounds of the model                                                     *)
(***************************************************************************)
\* longest text handed to smart_chunk_text in SpecChunk
MaxTextLen == 5
\* largest max_length handed to smart_chunk_text in SpecChunk
MaxChunkLen == 3
\* cap on the number of chunks the loop of smart_chunk_text may build, in
\* SpecChunk and in the page loop of Spec
MaxChunks == 6

(***************************************************************************)
(* Character classes (the classes the regular expressions distinguish)    *)
(***************************************************************************)
Whitespace == {" ", "\n", "\t"}
\* [。！？.!?] : u3002, uFF01, uFF1F are the ideographic full stop and the
\* fullwidth exclamation and question marks
SentenceChars == {"u3002", "uFF01", "uFF1F", ".", "!", "?"}
\* [，,;；] : uFF0C and uFF1B are the fullwidth comma and semicolon
CommaChars == {"uFF0C", ",", ";", "uFF1B"}

IsWs(c) == c \in Whitespace

Min2(a, b) == IF a <= b THEN a ELSE b
Max2(a, b) == IF a >= b THEN a ELSE b
SetMax(S) == CHOOSE x \in S : \A y \in S : y <= x
SetMin(S) == CHOOSE x \in S : \A y \in S : x <= y

\* Python slice s[a:b] for 0 <= a, 0 <= b
Slice(s, a, b) == SubSeq(s, a + 1, Min2(b, Len(s)))
\* Python slice s[a:]
SliceFrom(s, a) == SubSeq(s, a + 1, Len(s))

\* offset just after the maximal run of whitespace that starts at offset p
\* (p itself when the character at offset p is not whitespace)
WsRunEnd(s, p) ==
    IF \E q \in p..(Len(s) - 1) : ~IsWs(s[q + 1])
    THEN CHOOSE q \in p..(Len(s) - 1) :
            /\ ~IsWs(s[q + 1])
            /\ \A r \in p..(q - 1) : IsWs(s[r + 1])
    ELSE Max2(p, Len(s))

\* the digits, the ASCII letters and the ideographs the patterns of the
\* source name (U+4E00..U+9FFF), with u9879 standing for any other ideograph
Digits == {"0", "1", "2", "3", "4", "5", "6", "7", "8", "9"}
Letters ==
    {"a", "b", "c", "d", "e", "f", "g", "h", "i", "j", "k", "l", "m",
     "n", "o", "p", "q", "r", "s", "t", "u", "v", "w", "x", "y", "z",
     "A", "B", "C", "D", "E", "F", "G", "H", "I", "J", "K", "L", "M",
     "N", "O", "P", "Q", "R", "S", "T", "U", "V", "W", "X", "Y", "Z"}
Ideographs ==
    {"u76EE", "u5F55", "u8868", "u529F", "u80FD", "u77E9", "u9635", "u7CFB",
     "u7EDF", "u672F", "u8BED", "u6982", "u8FF0", "u524D", "u8A00", "u66F4",
     "u6539", "u8BB0", "u9879"}
\* the list table_chars of detect_table
TableChars ==
    {"u2503", "u2502", "u251C", "u2524", "u252C", "u2534", "u2500", "u2551",
     "u2560", "u2563"}

IsDigit(c) == c \in Digits

\* the Python value None passed where a text is expected
PyNone == <<"<NoneType>">>
\* the string 'None'
NoneStr == <<"N", "o", "n", "e">>

(***************************************************************************)
(* String helpers                                                          *)
(***************************************************************************)
Indices(s) == [i \in 1..Len(s) |-> i]

\* the characters of s at the indices that satisfy Keep, in order
KeepAt(s, Keep(_)) ==
    LET idx == SelectSeq(Indices(s), Keep)
    IN  [j \in 1..Len(idx) |-> s[idx[j]]]

\* every whitespace character replaced by one space
SpacesOnly(s) == [i \in 1..Len(s) |-> IF IsWs(s[i]) THEN " " ELSE s[i]]

\* str.strip()
Strip(s) ==
    LET solid == SelectSeq(Indices(s), LAMBDA i : ~IsWs(s[i]))
    IN  IF Len(solid) = 0 THEN <<>>
        ELSE SubSeq(s, solid[1], solid[Len(solid)])

\* s.count(c)
Count(s, c) == Len(SelectSeq(s, LAMBDA x : x = c))

\* sub occurs in s at index i
OccursAt(s, sub, i) ==
    /\ i >= 1
    /\ i + Len(sub) - 1 <= Len(s)
    /\ SubSeq(s, i, i + Len(sub) - 1) = sub

\* sub in s
Contains(s, sub) == \E i \in 1..(Len(s) - Len(sub) + 1) : OccursAt(s, sub, i)

\* s.startswith('[')
StartsWithBracket(s) == Len(s) >= 1 /\ s[1] = "["

\* first index >= i of s that holds no whitespace (Len(s) + 1 if none)
SkipWs(s, i) == WsRunEnd(s, i - 1) + 1

\* first index >= i of s that holds no digit (Len(s) + 1 if none)
SkipDigits(s, i) ==
    IF \E q \in i..Len(s) : ~IsDigit(s[q])
    THEN CHOOSE q \in i..Len(s) :
            /\ ~IsDigit(s[q])
            /\ \A r \in i..(q - 1) : IsDigit(s[r])
    ELSE Max2(i, Len(s) + 1)

\* first index >= i of s that holds no '.' (Len(s) + 1 if none)
SkipDots(s, i) ==
    IF \E q \in i..Len(s) : s[q] # "."
    THEN CHOOSE q \in i..Len(s) :
            /\ s[q] # "."
            /\ \A r \in i..(q - 1) : s[r] = "."
    ELSE Max2(i, Len(s) + 1)

(***************************************************************************)
(* safe_text_cleaning (the same text in V2 and V3)                         *)
(***************************************************************************)
\* index i lies in a whitespace-delimited token that is exactly 'None'
InNoneToken(s, i) ==
    /\ s[i] \in {"N", "o", "n", "e"}
    /\ \E a \in Max2(1, i - 3)..i :
        /\ OccursAt(s, NoneStr, a)
        /\ (a = 1 \/ IsWs(s[a - 1]))
        /\ (a + 3 = Len(s) \/ IsWs(s[a + 4]))

\* a faulty filter that keeps the tokens 'None'
InCleanPartKeepsNone(s, i) == ~IsWs(s[i])

\* index i lies in a token of text.split() that the filter keeps
InCleanPart(s, i) == ~IsWs(s[i]) /\ ~InNoneToken(s, i)

\* ' '.join(clean_parts): the kept tokens, one space between neighbours
JoinCleanParts(s) ==
    LET kept == SelectSeq(Indices(s), LAMBDA i : InCleanPart(s, i))
        last == IF Len(kept) = 0 THEN 0 ELSE kept[Len(kept)]
        Keep(i) ==
            \/ InCleanPart(s, i)
            \/ (IsWs(s[i]) /\ i > 1 /\ i < last /\ InCleanPart(s, i - 1))
    IN  SpacesOnly(KeepAt(s, Keep))

\* a faulty pass that takes one dot off every run of more than three
CollapseDotsByOne(s) ==
    KeepAt(s, LAMBDA i :
        ~(/\ i > 3
          /\ s[i] = "." /\ s[i - 1] = "." /\ s[i - 2] = "." /\ s[i - 3] = "."
          /\ (i = Len(s) \/ s[i + 1] # ".")))

\* re.sub(r'\.{3,}', '...', s)
CollapseDots(s) ==
    KeepAt(s, LAMBDA i :
        ~(i > 3 /\ s[i] = "." /\ s[i - 1] = "." /\ s[i - 2] = "." /\ s[i - 3] = "."))

\* re.sub(r'\s+', ' ', s)
CollapseWs(s) ==
    SpacesOnly(KeepAt(s, LAMBDA i : ~(i > 1 /\ IsWs(s[i]) /\ IsWs(s[i - 1]))))

safe_text_cleaning(text) ==
    IF text = PyNone \/ text = <<>> THEN <<>>
    ELSE IF Strip(text) = NoneStr THEN <<>>
    ELSE LET clean_text == JoinCleanParts(text)
         IN  IF clean_text = <<>> THEN <<>>
             ELSE Strip(CollapseWs(CollapseDots(clean_text)))

(***************************************************************************)
(* detect_toc                                                              *)
(***************************************************************************)
\* re.search(r'目\s*录', text): u76EE, whitespace, u5F55
HasTocKeyword(text) ==
    \E i \in 1..Len(text) :
        /\ text[i] = "u76EE"
        /\ SkipWs(text, i + 1) <= Len(text)
        /\ text[SkipWs(text, i + 1)] = "u5F55"

\* index of the last character of the match of -\s*\d+\s*- that starts at
\* index i, or 0 when none starts there
PageMarkEnd(s, i) ==
    IF i > Len(s) \/ s[i] # "-" THEN 0
    ELSE LET d == SkipWs(s, i + 1)
             e == SkipDigits(s, d)
             k == SkipWs(s, e)
         IN  IF e > d /\ k <= Len(s) /\ s[k] = "-" THEN k ELSE 0

\* index of the last character of the match of \d+\.\d+\.\d+ that starts at
\* index i, or 0 when none starts there
HierEnd(s, i) ==
    IF i > Len(s) \/ ~IsDigit(s[i]) THEN 0
    ELSE LET a == SkipDigits(s, i)
             b == SkipDigits(s, a + 1)
             c == SkipDigits(s, b + 1)
         IN  IF /\ a <= Len(s) /\ s[a] = "." /\ b > a + 1
                /\ b <= Len(s) /\ s[b] = "." /\ c > b + 1
             THEN c - 1 ELSE 0

\* len(re.findall(r'-\s*\d+\s*-', s)) counted from index from on: the
\* matches are taken leftmost first and do not overlap
RECURSIVE CountPageMarks(_, _)
CountPageMarks(s, from) ==
    IF \E i \in from..Len(s) : PageMarkEnd(s, i) > 0
    THEN LET i == CHOOSE i \in from..Len(s) :
                    /\ PageMarkEnd(s, i) > 0
                    /\ \A r \in from..(i - 1) : PageMarkEnd(s, r) = 0
         IN  1 + CountPageMarks(s, PageMarkEnd(s, i) + 1)
    ELSE 0

\* len(re.findall(r'\d+\.\d+\.\d+', s)) counted from index from on
RECURSIVE CountHier(_, _)
CountHier(s, from) ==
    IF \E i \in from..Len(s) : HierEnd(s, i) > 0
    THEN LET i == CHOOSE i \in from..Len(s) :
                    /\ HierEnd(s, i) > 0
                    /\ \A r \in from..(i - 1) : HierEnd(s, r) = 0
         IN  1 + CountHier(s, HierEnd(s, i) + 1)
    ELSE 0

\* dot_ratio > 0.15 or dash_ratio > 0.1, in integers
DotDashHeavy(text) ==
    /\ Len(text) > 0
    /\ \/ 100 * Count(text, ".") > 15 * Len(text)
       \/ 10 * Count(text, "-") > Len(text)

detect_toc(text) ==
    \/ HasTocKeyword(text)
    \/ DotDashHeavy(text)
    \/ CountPageMarks(text, 1) > 10
    \/ CountHier(text, 1) > 15

(***************************************************************************)
(* detect_table, process_table_structure                                   *)
(***************************************************************************)
\* some line of s holds a, and after it b (the pattern a.*b)
SameLineAfter(s, a, b) ==
    \E i \in 1..Len(s) :
        /\ OccursAt(s, a, i)
        /\ \E j \in (i + Len(a))..Len(s) :
              /\ OccursAt(s, b, j)
              /\ \A k \in i..j : s[k] # "\n"

\* re.search(r'\|.*\|.*\|', s): three bars on one line
ThreeBars(s) ==
    \E i \in 1..Len(s) :
        /\ s[i] = "|"
        /\ \E j \in (i + 1)..Len(s) :
              /\ s[j] = "|"
              /\ \E k \in (j + 1)..Len(s) :
                    /\ s[k] = "|"
                    /\ \A m \in i..k : s[m] # "\n"

\* the lines of text.split('\n') as pairs <<first index, last index>>
LineSpans(s) ==
    LET nl == SelectSeq(Indices(s), LAMBDA i : s[i] = "\n")
    IN  [k \in 1..(Len(nl) + 1) |->
            <<IF k = 1 THEN 1 ELSE nl[k - 1] + 1,
              IF k = Len(nl) + 1 THEN Len(s) ELSE nl[k] - 1>>]

Lines(s) ==
    LET spans == LineSpans(s)
    IN  [k \in 1..Len(spans) |-> SubSeq(s, spans[k][1], spans[k][2])]

RECURSIVE SumSeq(_)
SumSeq(q) == IF q = <<>> THEN 0 ELSE Head(q) + SumSeq(Tail(q))

Abs(x) == IF x < 0 THEN 0 - x ELSE x

\* step 3 of detect_table: more than 60% of the non-blank lines are within
\* 30% of the mean length (avg = total / n, compared in integers)
UniformLines(text) ==
    LET lines == Lines(text)
        solid == SelectSeq(lines, LAMBDA l : Strip(l) # <<>>)
        line_lengths == [k \in 1..Len(solid) |-> Len(solid[k])]
        n == Len(line_lengths)
        total == SumSeq(line_lengths)
        similar_lines == Len(SelectSeq(line_lengths,
                            LAMBDA l : 10 * Abs(n * l - total) < 3 * total))
    IN  /\ Len(lines) > 3
        /\ n > 3
        /\ 10 * similar_lines > 6 * n

detect_table(text) ==
    \/ Len(SelectSeq(text, LAMBDA c : c \in TableChars)) > 5
    \/ \E i \in 1..(Len(text) - 1) : text[i] = "u8868" /\ IsDigit(text[i + 1])
    \/ Contains(text, <<"u529F", "u80FD", "u77E9", "u9635">>)
    \/ SameLineAfter(text, <<"u7CFB", "u7EDF">>, <<"u529F", "u80FD">>)
    \/ ThreeBars(text)
    \/ UniformLines(text)

\* the table handler returns its argument
process_table_structure(text) == text

(***************************************************************************)
(* parse_toc_items, translate_toc_item (V3)                                *)
(***************************************************************************)
\* the keywords of the fallback branch of parse_toc_items
TocKeywords ==
    {<<"u672F", "u8BED">>, <<"u6982", "u8FF0">>, <<"u524D", "u8A00">>,
     <<"u66F4", "u6539", "u8BB0", "u5F55">>}

\* line[1..e] matches \d+(?:\.\d+)*
IsNumberPrefix(line, e) ==
    /\ e >= 1
    /\ e <= Len(line)
    /\ IsDigit(line[1])
    /\ IsDigit(line[e])
    /\ \A i \in 1..e : IsDigit(line[i]) \/ line[i] = "."
    /\ \A i \in 1..(e - 1) : ~(line[i] = "." /\ line[i + 1] = ".")

\* a '.' follows index b after optional whitespace (the tail \s*\.+ of the
\* item pattern can match right after the title)
DotAfterWs(line, b) ==
    /\ SkipWs(line, b + 1) <= Len(line)
    /\ line[SkipWs(line, b + 1)] = "."

\* with the number ending at index e, the index where the title group
\* starts (0 when the pattern cannot match with this number): \s* takes the
\* longest run of whitespace that still leaves a title and a later '.'
TitleStart(line, e) ==
    LET ok == {a \in (e + 2)..Min2(SkipWs(line, e + 2), Len(line)) :
                    \E d \in (a + 1)..Len(line) : line[d] = "."}
    IN  IF e + 1 <= Len(line) /\ line[e + 1] = "." /\ ok # {}
        THEN SetMax(ok) ELSE 0

\* re.search of the item pattern
\*   ^(\d+(?:\.\d+)*)\.\s*(.+?)\s*\.+\s*(?:.*?-\s*(\d+)\s*-)?
\* on one stripped line: the longest number with which the rest matches, the
\* shortest title, the first page mark after the dots
ItemMatch(line) ==
    LET ends == {e \in 1..Len(line) : IsNumberPrefix(line, e) /\ TitleStart(line, e) > 0}
    IN  IF ends = {} THEN [matched |-> FALSE]
        ELSE LET e == SetMax(ends)
                 a == TitleStart(line, e)
                 b == CHOOSE b \in a..Len(line) :
                        /\ DotAfterWs(line, b)
                        /\ \A r \in a..(b - 1) : ~DotAfterWs(line, r)
                 from == SkipWs(line, SkipDots(line, SkipWs(line, b + 1)))
                 marks == {i \in from..Len(line) : PageMarkEnd(line, i) > 0}
                 m == SetMin(marks)
             IN  [matched |-> TRUE,
                  number |-> SubSeq(line, 1, e),
                  title |-> Strip(SubSeq(line, a, b)),
                  page |-> IF marks = {} THEN <<>>
                           ELSE SubSeq(line, SkipWs(line, m + 1),
                                       SkipDigits(line, SkipWs(line, m + 1)) - 1)]

\* the item parse_toc_items makes of one stripped, non-empty line; the list
\* is empty when the line gives no item
ItemsOfLine(line) ==
    LET match == ItemMatch(line)
    IN  IF match.matched
    THEN <<[number |-> match.number, title |-> match.title,
            page |-> match.page, original_line |-> line]>>
    ELSE IF \E kw \in TocKeywords : Contains(line, kw)
    THEN <<[number |-> <<>>, title |-> line, page |-> <<>>, original_line |-> line]>>
    ELSE <<>>

RECURSIVE ConcatAll(_)
ConcatAll(q) == IF q = <<>> THEN <<>> ELSE Head(q) \o ConcatAll(Tail(q))

parse_toc_items(text) ==
    LET lines == Lines(text)
        stripped == [k \in 1..Len(lines) |-> Strip(lines[k])]
    IN  ConcatAll([k \in 1..Len(stripped) |->
                      IF stripped[k] = <<>> THEN <<>> ELSE ItemsOfLine(stripped[k])])

\* a faulty loop that sends every item to the provider
ItemsToTranslateAll(items) == Len(items)

\* line 368 of V3: len(items[:5]), the number of items that go through
\* translate_toc_item
ItemsToTranslate(items) == Min2(5, Len(items))

\* translate_toc_item returns the original line without calling the
\* provider: `not title or len(title) < 2`
TocItemSkipped(item) == Len(item.title) < 2

Dots20 == [i \in 1..20 |-> "."]

\* the line translate_toc_item builds from a translated title
TocLine(item, translated_title) ==
    IF item.number # <<>> /\ item.page # <<>>
    THEN item.number \o <<".", " ">> \o translated_title \o <<" ">> \o Dots20
            \o <<" ", "-", " ">> \o item.page \o <<" ", "-">>
    ELSE IF item.number # <<>>
    THEN item.number \o <<".", " ">> \o translated_title
    ELSE translated_title

\* '\n'.join(lines)
RECURSIVE JoinLines(_)
JoinLines(q) ==
    IF q = <<>> THEN <<>>
    ELSE IF Len(q) = 1 THEN q[1]
    ELSE q[1] \o <<"\n">> \o JoinLines(Tail(q))

(***************************************************************************)
(* extract_chinese_content, the formatted-content test, truncation (V2)    *)
(***************************************************************************)
\* the character class of chinese_pattern: U+4E00..U+9FFF, U+3400..U+4DBF,
\* the fullwidth parentheses uFF08 uFF09, A-Z a-z 0-9 and whitespace
InChinesePattern(c) ==
    c \in Ideographs \cup {"uFF08", "uFF09"} \cup Letters \cup Digits \cup Whitespace

\* the matches are the maximal runs of characters of the class; joining them
\* with ' ' and collapsing whitespace leaves one space for every stretch of
\* other characters and whitespace between two runs
extract_chinese_content(text) ==
    IF text = PyNone THEN <<>>
    ELSE Strip(CollapseWs([i \in 1..Len(text) |->
                    IF InChinesePattern(text[i]) THEN text[i] ELSE " "]))

\* symbol_ratio > 0.25, in integers
MostlySymbols(clean_text) ==
    4 * (Count(clean_text, ".") + Count(clean_text, "-") + Count(clean_text, "_"))
        > Len(clean_text)

\* lines 196-198 of V2: a text over 2000 characters is cut and '...' added
Truncate2000(clean_text) ==
    IF Len(clean_text) > 2000
    THEN Slice(clean_text, 0, 2000) \o <<".", ".", ".">>
    ELSE clean_text

(***************************************************************************)
(* merge_chunk_translations                                                *)
(***************************************************************************)
RECURSIVE JoinSpaces(_)
JoinSpaces(q) ==
    IF q = <<>> THEN <<>>
    ELSE IF Len(q) = 1 THEN q[1]
    ELSE q[1] \o <<" ">> \o JoinSpaces(Tail(q))

merge_chunk_translations(translations) == JoinSpaces(translations)

(***************************************************************************)
(* calculate_dynamic_timeout (V2)                                          *)
(***************************************************************************)
\* a faulty budget that adds ten seconds per hundred characters
TimeoutTenPerHundred(text_length) ==
    Min2(30 + (text_length \div 100) * 10, 180)

\* timeout = min(30 + (text_length // 100), 180)
calculate_dynamic_timeout(text_length) ==
    Min2(30 + (text_length \div 100), 180)

(***************************************************************************)
(* find_best_split_point                                                   *)
(***************************************************************************)
\* m.start() of every match of \n\n+ : the start of each maximal run of two
\* or more newlines
ParagraphBreaks(w) ==
    {p \in 0..(Len(w) - 2) :
        /\ w[p + 1] = "\n"
        /\ w[p + 2] = "\n"
        /\ (p = 0 \/ w[p] # "\n")}

\* m.end() of every match of [chars]\s* : a character of the class and the
\* maximal whitespace run after it
EndsAfter(w, chars) ==
    {WsRunEnd(w, p + 1) : p \in {q \in 0..(Len(w) - 1) : w[q + 1] \in chars}}

\* m.end() of every match of \s+ : the end of each maximal whitespace run
SpaceEnds(w) ==
    {p \in 1..Len(w) : IsWs(w[p]) /\ (p = Len(w) \/ ~IsWs(w[p + 1]))}

\* max([x for x in S if x <= max_length], default=None); None is modelled
\* as 0, which the code's truth test `if best` treats alike
BestAtMost(S, max_length) ==
    IF {x \in S : x <= max_length} = {} THEN 0
    ELSE SetMax({x \in S : x <= max_length})

\* best > max_length * 0.7 and best > max_length * 0.8, in integers
Past70(best, max_length) == 10 * best > 7 * max_length
\* a faulty third step that takes a separator past 70% of max_length
Past80AtSeventy(best, max_length) == 10 * best > 7 * max_length
Past80(best, max_length) == 10 * best > 8 * max_length

\* a faulty split that steps three characters past the start of the break
ParagraphSplitPast(best) == best + 3

\* the break found by step 1 is at offset best; the code returns best + 2
ParagraphSplit(best) == best + 2

find_best_split_point(text, max_length) ==
    LET pbest == BestAtMost(ParagraphBreaks(Slice(text, 0, max_length + 100)), max_length)
        sbest == BestAtMost(EndsAfter(Slice(text, 0, max_length + 50), SentenceChars), max_length)
        cbest == BestAtMost(EndsAfter(Slice(text, 0, max_length + 20), CommaChars), max_length)
        wbest == BestAtMost(SpaceEnds(Slice(text, 0, max_length + 10)), max_length)
    IN  IF pbest # 0 /\ Past70(pbest, max_length) THEN ParagraphSplit(pbest)
        ELSE IF sbest # 0 /\ Past70(sbest, max_length) THEN sbest
        ELSE IF cbest # 0 /\ Past80(cbest, max_length) THEN cbest
        ELSE IF wbest # 0 THEN wbest
        ELSE max_length

(***************************************************************************)
(* smart_chunk_text                                                        *)
(***************************************************************************)
TextChunk(content, start_index, end_index, chunk_type) ==
    [content |-> content, start_index |-> start_index,
     end_index |-> end_index, chunk_type |-> chunk_type]

\* the chunk appended by one iteration of the while loop at offset pos
LoopChunk(text, max_length, pos) ==
    LET end_pos == Min2(pos + max_length, Len(text))
    IN  IF end_pos >= Len(text)
        THEN TextChunk(SliceFrom(text, pos), pos, Len(text), "final")
        ELSE LET chunk_text == Slice(text, pos, end_pos + 200)
                 actual_end == pos + find_best_split_point(chunk_text, max_length)
             IN  TextChunk(Slice(text, pos, actual_end), pos, actual_end, "split")

\* a faulty step that moves past the chunk instead of back into it
NextPosGap(actual_end, overlap) == actual_end + overlap

\* a step that goes back by overlap and stops at offset 0
NextPosClamped(actual_end, overlap) == Max2(actual_end - overlap, 0)

\* line 91: current_pos after a 'split' chunk ending at actual_end
NextPos(actual_end, overlap) ==
    IF actual_end > overlap THEN actual_end - overlap ELSE actual_end

\* a faulty test that sends a text of exactly max_length into the loop
FitsOneChunkStrict(text, max_length) == Len(text) < max_length

\* the test of line 57: the whole text fits one chunk
FitsOneChunk(text, max_length) == Len(text) <= max_length

(***************************************************************************)
(* The tagged strings the translators return                               *)
(***************************************************************************)
\* "[Error: Invalid input]"
InvalidInputMsg ==
    <<"[", "E", "r", "r", "o", "r", ":", " ", "I", "n", "v", "a", "l", "i",
      "d", " ", "i", "n", "p", "u", "t", "]">>

\* "[Error: None value detected]"
NoneValueMsg ==
    <<"[", "E", "r", "r", "o", "r", ":", " ", "N", "o", "n", "e", " ", "v",
      "a", "l", "u", "e", " ", "d", "e", "t", "e", "c", "t", "e", "d", "]">>

\* "[Error: No valid text after cleaning]"
NoValidTextMsg ==
    <<"[", "E", "r", "r", "o", "r", ":", " ", "N", "o", " ", "v", "a", "l",
      "i", "d", " ", "t", "e", "x", "t", " ", "a", "f", "t", "e", "r", " ",
      "c", "l", "e", "a", "n", "i", "n", "g", "]">>

\* "[Error: googletrans not installed]"
NotInstalledMsg ==
    <<"[", "E", "r", "r", "o", "r", ":", " ", "g", "o", "o", "g", "l", "e",
      "t", "r", "a", "n", "s", " ", "n", "o", "t", " ", "i", "n", "s", "t",
      "a", "l", "l", "e", "d", "]">>

\* "[Translation failed after 5 attempts]"
FailedMsg ==
    <<"[", "T", "r", "a", "n", "s", "l", "a", "t", "i", "o", "n", " ", "f",
      "a", "i", "l", "e", "d", " ", "a", "f", "t", "e", "r", " ", "5", " ",
      "a", "t", "t", "e", "m", "p", "t", "s", "]">>

\* "[TOC - Translation failed after 5 attempts]" (V2)
TocFailedMsg ==
    <<"[", "T", "O", "C", " ", "-", " ", "T", "r", "a", "n", "s", "l", "a",
      "t", "i", "o", "n", " ", "f", "a", "i", "l", "e", "d", " ", "a", "f",
      "t", "e", "r", " ", "5", " ", "a", "t", "t", "e", "m", "p", "t", "s",
      "]">>

TooShortPrefix ==
    <<"[", "S", "k", "i", "p", "p", "e", "d", ":", " ", "T", "o", "o", " ",
      "s", "h", "o", "r", "t", " ", "-", " ", "'">>

TooShortSuffix ==
    <<"'", "]">>

FormattingPrefix ==
    <<"[", "S", "k", "i", "p", "p", "e", "d", ":", " ", "M", "o", "s", "t",
      "l", "y", " ", "f", "o", "r", "m", "a", "t", "t", "i", "n", "g", " ",
      "-", " ">>

FormattingSuffix ==
    <<".", ".", ".", "]">>

TranslationErrorPrefix ==
    <<"[", "T", "r", "a", "n", "s", "l", "a", "t", "i", "o", "n", " ", "e",
      "r", "r", "o", "r", ":", " ">>

TocTag ==
    <<"[", "T", "O", "C", "]", " ">>

\* f"[Skipped: Too short - '{clean_text}']"
TooShortMsg(clean) == TooShortPrefix \o clean \o TooShortSuffix

\* f"[Skipped: Mostly formatting - {clean_text[:50]}...]"
FormattingMsg(clean) == FormattingPrefix \o Slice(clean, 0, 50) \o FormattingSuffix

\* f"[Translation error: {str(e)}]"
TranslationErrorMsg(message) == TranslationErrorPrefix \o message \o <<"]">>

\* f"[TOC] {result.text}"
TocTagged(translated) == TocTag \o translated

(***************************************************************************)
(* The provider (googletrans.Translator.translate) and the tests on its    *)
(* reply                                                                   *)
(***************************************************************************)
\* a translation the provider returns
ReplyText == <<"O", "K">>

\* what one call of translator.translate can do: return a result whose text
\* is a translation, only whitespace, empty or None, or raise
Outcomes ==
    {[kind |-> "result", text |-> ReplyText],
     [kind |-> "result", text |-> <<" ">>],
     [kind |-> "result", text |-> <<>>],
     [kind |-> "result", text |-> PyNone],
     [kind |-> "raise", text |-> PyNone]}

NoReply == [kind |-> "none", text |-> PyNone]

\* V3 line 330 and V2 line 181: result and result.text
ReplyTruthy(o) == o.kind = "result" /\ o.text # PyNone /\ o.text # <<>>

\* V3 line 531 and V2 line 210: ... and str(result.text).strip()
ReplyValid(o) == ReplyTruthy(o) /\ Strip(o.text) # <<>>

\* a faulty loop of six attempts
LoopEndsAfterSix(attempt) == attempt + 1 >= 6

\* a faulty loop of four attempts
LoopEndsAfterFour(attempt) == attempt + 1 >= 4

\* for attempt in range(5): attempt is the last one of the loop
LoopEnds(attempt) == attempt + 1 >= 5

\* if attempt < 4: a sleep follows the failed attempt
SleepsAfter(attempt) == attempt < 4

\* a faulty wait that grows by two seconds per attempt
BackoffLinear(attempt) == 2 * attempt

\* wait_time = 2 ** attempt
Backoff(attempt) == 2 ^ attempt

\* a call left by an exception that its caller has to handle
Escaped == <<"<raised>">>

\* lines 513-516 of V3, 226-229 of V2: what translate_with_google_robust
\* returns when an exception reaches its handlers
OuterExcept(exc, message) ==
    IF exc = "ImportError" THEN NotInstalledMsg
    ELSE TranslationErrorMsg(message)

\* a value is a Python str
IsStr(x) == x # PyNone /\ x # Escaped

(***************************************************************************)
(* The pre-checks of translate_with_google_robust (both versions)          *)
(***************************************************************************)
\* a faulty threshold that lets a text of four characters through
TooShortBelowFour(clean) == Len(clean) < 4

\* len(clean_text) < 5
TooShort(clean) == Len(clean) < 5

\* V3 lines 466-470, V2 lines 143-148: the tagged string the pre-checks on
\* the text as given return, or PyNone when it passes them
RawCheck(text) ==
    IF text = PyNone \/ text = <<>> THEN InvalidInputMsg
    ELSE IF Strip(text) = NoneStr THEN NoneValueMsg
    ELSE PyNone

\* V3 lines 473-477, V2 lines 152-157: the tagged string the pre-checks on
\* clean_text return, or PyNone when it passes them
CleanCheck(clean) ==
    IF clean = <<>> THEN NoValidTextMsg
    ELSE IF TooShort(clean) THEN TooShortMsg(clean)
    ELSE PyNone

\* a faulty threshold that leaves a text of 1001 characters whole
NeedsChunkingOver1001(clean) == Len(clean) > 1001

\* line 493 of V3: use_chunking and len(clean_text) > 1000
NeedsChunking(clean) == Len(clean) > 1000

\* V2 line 168-171: the page takes the formatted-content path, and its
\* extracted content is long enough to translate
IsFormatted(clean) == MostlySymbols(clean)
FormattedWorthIt(clean) == Len(extract_chinese_content(clean)) > 10

(***************************************************************************)
(* State                                                                   *)
(***************************************************************************)
VARIABLES
    cText,          \* smart_chunk_text: the argument text
    cMax,           \* smart_chunk_text: the argument max_length
    cOverlap,       \* smart_chunk_text: the argument overlap
    current_pos,    \* smart_chunk_text: the local current_pos
    chunks,         \* smart_chunk_text: the list chunks; in the pipeline the
                    \* chunks of the page being translated (<<>> when whole)
    cpc,            \* smart_chunk_text: "call", "loop", "done" (returned);
                    \* "idle" in the pipeline
    version,        \* "V2" or "V3": which translator script runs
    importOK,       \* whether `from googletrans import Translator` succeeds
    pages,          \* main: pages_to_translate, records page_number, text
    results,        \* main: the list results
    i,              \* main: the loop counter i (1-based)
    pc,             \* where the run is: "page" (main calls the translator),
                    \* "cleaned", "toc", "chunking", "unit", "formatted"
                    \* (inside translate_with_google_robust), "returned",
                    \* "save", "end", "crashed" (main)
    translated,     \* main: what translate_with_google_robust returned
    clean_text,     \* translate_with_google_robust: clean_text
    items,          \* process_toc_structure: items
    translated_items, \* process_toc_structure: translated_items
    chunk_translations, \* translate_with_google_robust: chunk_translations
    attempt,        \* the loop variable attempt of the retry loop
    calls,          \* provider calls made by the current or last unit
    sleeps,         \* seconds slept inside the current or last unit, in order
    unitKind,       \* "none", "text" (a whole page text), "chunk",
                    \* "formatted" (V2, extracted content)
    unitState,      \* "none", "running", "ok", "failed" for that unit
    unitResult,     \* what that unit returned
    lastReply,      \* the provider's reply that ended the unit or TOC item
                    \* (NoReply after a failed attempt)
    pageCalls,      \* provider calls made for the current or last page
    pageSleeps,     \* sleeps made inside translate_with_google_robust for it
    failedPages,    \* indices of the pages one of whose units failed or
                    \* was skipped
    successful_translations, \* create_outputs: the count written to the JSON
    handlers,       \* translate_with_google_robust (V3): the handlers applied
                    \* to the page so far, in order ("toc", "table")
    unpaced,        \* TRUE when the run has called the provider and has not
                    \* called time.sleep since
    fn,             \* the function a single call of which is followed
                    \* ("none" in the page loop and in the chunker)
    arg,            \* its argument
    ret             \* a record: pc is "call" before the call, "done" after
                    \* it (with what it returned as value), a place in its
                    \* body in between (with its locals)

chunkVars == <<cText, cMax, cOverlap, current_pos, cpc>>

runVars == <<version, importOK, pages>>

unitVars ==
    <<attempt, calls, sleeps, unitKind, unitState, unitResult, lastReply>>

pipeVars ==
    <<version, importOK, pages, results, i, pc, translated, clean_text,
      items, translated_items, chunk_translations, attempt, calls, sleeps,
      unitKind, unitState, unitResult, lastReply, pageCalls, pageSleeps,
      failedPages, successful_translations, handlers, unpaced>>

\* the state of a function followed on its own
funVars == <<fn, arg, ret>>

vars ==
    <<cText, cMax, cOverlap, current_pos, chunks, cpc, version, importOK,
      pages, results, i, pc, translated, clean_text, items,
      translated_items, chunk_translations, attempt, calls, sleeps, unitKind, unitState,
      unitResult, lastReply, pageCalls, pageSleeps, failedPages,
      successful_translations, handlers, unpaced, fn, arg, ret>>

\* no single function call is followed
FunIdle ==
    /\ fn = "none"
    /\ arg = <<>>
    /\ ret = [pc |-> "idle"]

\* the pipeline at rest: nothing read, nothing translated
PipelineIdle ==
    /\ version = "V3"
    /\ importOK = TRUE
    /\ pages = <<>>
    /\ results = <<>>
    /\ i = 1
    /\ pc = "end"
    /\ translated = <<>>
    /\ clean_text = <<>>
    /\ items = <<>>
    /\ translated_items = <<>>
    /\ chunk_translations = <<>>
    /\ attempt = 0
    /\ calls = 0
    /\ sleeps = <<>>
    /\ unitKind = "none"
    /\ unitState = "none"
    /\ unitResult = <<>>
    /\ lastReply = NoReply
    /\ pageCalls = 0
    /\ pageSleeps = 0
    /\ failedPages = {}
    /\ successful_translations = 0
    /\ handlers = <<>>
    /\ unpaced = FALSE

(***************************************************************************)
(* smart_chunk_text as a loop, one action per path through its body        *)
(***************************************************************************)
ChunkAlphabet == {"a", " ", "\n", ".", ","}

\* all texts over an alphabet of length at most n
TextsUpTo(alphabet, n) == UNION {[1..k -> alphabet] : k \in 0..n}

InitChunk ==
    /\ cText \in TextsUpTo(ChunkAlphabet, MaxTextLen)
    /\ cMax \in 1..MaxChunkLen
    /\ cOverlap \in 0..(cMax - 1)
    /\ current_pos = 0
    /\ chunks = <<>>
    /\ cpc = "call"
    /\ PipelineIdle
    /\ FunIdle

\* lines 57-58: the text fits, one 'complete' chunk is returned
ChunkComplete ==
    /\ cpc = "call"
    /\ FitsOneChunk(cText, cMax)
    /\ chunks' = <<TextChunk(cText, 0, Len(cText), "complete")>>
    /\ cpc' = "done"
    /\ UNCHANGED <<cText, cMax, cOverlap, current_pos, pipeVars, funVars>>

\* lines 60-61: the text does not fit, the loop is entered
ChunkEnter ==
    /\ cpc = "call"
    /\ ~FitsOneChunk(cText, cMax)
    /\ chunks' = <<>>
    /\ current_pos' = 0
    /\ cpc' = "loop"
    /\ UNCHANGED <<cText, cMax, cOverlap, pipeVars, funVars>>

\* lines 63-75: the window reaches the end of the text, the 'final' chunk
\* is appended and the loop is left by break
ChunkFinal ==
    /\ cpc = "loop"
    /\ current_pos < Len(cText)
    /\ Min2(current_pos + cMax, Len(cText)) >= Len(cText)
    /\ chunks' = Append(chunks, LoopChunk(cText, cMax, current_pos))
    /\ cpc' = "done"
    /\ UNCHANGED <<cText, cMax, cOverlap, current_pos, pipeVars, funVars>>

\* lines 63-91: a 'split' chunk is appended and current_pos moves on
ChunkSplit ==
    /\ cpc = "loop"
    /\ current_pos < Len(cText)
    /\ Min2(current_pos + cMax, Len(cText)) < Len(cText)
    /\ Len(chunks) < MaxChunks
    /\ LET c == LoopChunk(cText, cMax, current_pos)
       IN  /\ chunks' = Append(chunks, c)
           /\ current_pos' = NextPos(c.end_index, cOverlap)
    /\ UNCHANGED <<cText, cMax, cOverlap, cpc, pipeVars, funVars>>

\* line 63 and 93: the while condition is false, chunks is returned
ChunkExit ==
    /\ cpc = "loop"
    /\ current_pos >= Len(cText)
    /\ cpc' = "done"
    /\ UNCHANGED <<cText, cMax, cOverlap, current_pos, chunks, pipeVars, funVars>>

NextChunk ==
    \/ ChunkComplete
    \/ ChunkEnter
    \/ ChunkFinal
    \/ ChunkSplit
    \/ ChunkExit

SpecChunk == InitChunk /\ [][NextChunk]_vars

(***************************************************************************)
(* Claims about smart_chunk_text                                           *)
(***************************************************************************)
\* the characters of chunk k that no earlier chunk already covered
FreshPart(chs, k, covered) ==
    IF chs[k].end_index <= covered THEN <<>>
    ELSE SliceFrom(chs[k].content, Max2(covered - chs[k].start_index, 0))

RECURSIVE JoinFresh(_, _, _)
JoinFresh(chs, k, covered) ==
    IF k > Len(chs) THEN <<>>
    ELSE FreshPart(chs, k, covered)
            \o JoinFresh(chs, k + 1, Max2(covered, chs[k].end_index))

\* C8: when smart_chunk_text returns, the chunks cover the text without gaps
\* and in order: the first starts at 0, the last ends at len(text), each
\* starts at or before the end of the one before it, each holds
\* text[start_index:end_index], and the chunks joined without their
\* overlaps are the text.
C8_ChunksCoverText ==
    cpc = "done" =>
        /\ Len(chunks) >= 1
        /\ chunks[1].start_index = 0
        /\ chunks[Len(chunks)].end_index = Len(cText)
        /\ \A k \in 2..Len(chunks) :
              chunks[k].start_index <= chunks[k - 1].end_index
        /\ \A k \in 1..Len(chunks) :
              chunks[k].content = Slice(cText, chunks[k].start_index, chunks[k].end_index)
        /\ JoinFresh(chunks, 1, 0) = cText

\* a text was split into three or more chunks, two of them overlapping
C8_Witness ==
    /\ cpc = "done"
    /\ Len(chunks) >= 3
    /\ \E k \in 2..Len(chunks) : chunks[k].start_index < chunks[k - 1].end_index

\* C9: a text with len(text) <= max_length gives exactly one chunk, of kind
\* 'complete', holding the whole text at offsets 0 and len(text).
C9_ShortTextOneChunk ==
    (cpc = "done" /\ Len(cText) <= cMax) =>
        chunks = <<TextChunk(cText, 0, Len(cText), "complete")>>

\* a text of exactly max_length characters was returned as one chunk
C9_Witness ==
    /\ cpc = "done"
    /\ Len(cText) = cMax
    /\ Len(chunks) = 1

\* C10: every chunk smart_chunk_text builds is at most max_length long.
C10_ChunkBounded ==
    \A k \in 1..Len(chunks) : Len(chunks[k].content) <= cMax

\* C11 as stated: every chunk smart_chunk_text builds has
\* 0 <= start_index < end_index <= len(text), for every text.
C11_ChunkIndexStrict ==
    \A k \in 1..Len(chunks) :
        /\ 0 <= chunks[k].start_index
        /\ chunks[k].start_index < chunks[k].end_index
        /\ chunks[k].end_index <= Len(cText)

\* C11, amended: every chunk has 0 <= start_index <= end_index <= len(text);
\* start_index < end_index for every chunk of a non-empty text, and the
\* empty text gives the one 'complete' chunk with both offsets 0.
C11_ChunkIndexBounds ==
    /\ \A k \in 1..Len(chunks) :
          /\ 0 <= chunks[k].start_index
          /\ chunks[k].start_index <= chunks[k].end_index
          /\ chunks[k].end_index <= Len(cText)
          /\ (cText # <<>> => chunks[k].start_index < chunks[k].end_index)
    /\ (cpc = "done" /\ cText = <<>>) =>
          chunks = <<TextChunk(<<>>, 0, 0, "complete")>>

\* a non-empty text was returned as a 'split' chunk cut after a paragraph
\* break that closes the text, with a 'final' chunk after it
C11_Witness ==
    /\ cpc = "done"
    /\ Len(chunks) >= 2
    /\ chunks[1].chunk_type = "split"
    /\ chunks[1].end_index = Len(cText)
    /\ cText[Len(cText)] = "\n"
    /\ chunks[Len(chunks)].chunk_type = "final"

(***************************************************************************)
(* The page loop of main and translate_with_google_robust                  *)
(***************************************************************************)
\* most pages one run is given
MaxPages == 2

\* a page text of 1001 characters with one sentence end, at offset 699
LongText == [k \in 1..1001 |-> IF k = 700 THEN "." ELSE "a"]

\* a page text of 1500 characters with one space, at offset 650, and one
\* sentence end, at offset 699
SpacedText ==
    [k \in 1..1500 |-> IF k = 651 THEN " " ELSE IF k = 700 THEN "." ELSE "a"]

\* a page text of 20 letters and a run of 6 dots: 6 of its 26 characters
\* are dots, 3 of the 23 that safe_text_cleaning leaves
DottedText == [k \in 1..26 |-> IF k <= 20 THEN "a" ELSE "."]

\* the page texts the runs are given, by name: the empty string, ' None',
\* 'None None', ' a  bc ', 'hello', '--.--.--', '1.1. abcdefgh ..... - 2 -',
\* a table caption (u8868 then '1 abcde'), a page with the TOC keyword
\* (u76EE u5F55) and a table caption, a page ending in leader dots, and the
\* two long texts
Chars(name) ==
    CASE name = "empty" -> <<>>
      [] name = "none" -> <<" ", "N", "o", "n", "e">>
      [] name = "nones" -> <<"N", "o", "n", "e", " ", "N", "o", "n", "e">>
      [] name = "short" -> <<" ", "a", " ", " ", "b", "c", " ">>
      [] name = "hello" -> <<"h", "e", "l", "l", "o">>
      [] name = "symbols" -> <<"-", "-", ".", "-", "-", ".", "-", "-">>
      [] name = "toc" ->
            <<"1", ".", "1", ".", " ", "a", "b", "c", "d", "e", "f", "g",
              "h", " ", ".", ".", ".", ".", ".", " ", "-", " ", "2", " ",
              "-">>
      [] name = "table" -> <<"u8868", "1", " ", "a", "b", "c", "d", "e">>
      [] name = "both" ->
            <<"u76EE", "u5F55", " ", "u8868", "1", " ", "a", "b">>
      [] name = "dotted" -> DottedText
      [] name = "long" -> LongText
      [] name = "spaced" -> SpacedText

PageTexts ==
    {"empty", "none", "nones", "short", "hello", "symbols", "toc", "table",
     "both", "dotted", "long", "spaced"}

\* pages_to_translate: up to MaxPages pages, numbered from 2 on as the
\* default target_pages of V3 are; a page holds its text by name
PageLists ==
    UNION {{[k \in 1..n |-> [page_number |-> k + 1, text |-> f[k]]] :
                f \in [1..n -> PageTexts]} : n \in 1..MaxPages}

Init ==
    /\ version \in {"V2", "V3"}
    /\ importOK \in BOOLEAN
    /\ pages \in PageLists
    /\ results = <<>>
    /\ i = 1
    /\ pc = "page"
    /\ translated = <<>>
    /\ clean_text = <<>>
    /\ items = <<>>
    /\ translated_items = <<>>
    /\ chunk_translations = <<>>
    /\ chunks = <<>>
    /\ attempt = 0
    /\ calls = 0
    /\ sleeps = <<>>
    /\ unitKind = "none"
    /\ unitState = "none"
    /\ unitResult = <<>>
    /\ lastReply = NoReply
    /\ pageCalls = 0
    /\ pageSleeps = 0
    /\ failedPages = {}
    /\ successful_translations = 0
    /\ cText = <<>>
    /\ cMax = 800
    /\ cOverlap = 100
    /\ current_pos = 0
    /\ cpc = "idle"
    /\ handlers = <<>>
    /\ unpaced = FALSE
    /\ FunIdle

\* the text of the page the loop is at
PageText == Chars(pages[i].text)

\* a faulty table step that returns nothing for a table
TableHandledDropsText(text) ==
    IF detect_table(text) THEN <<>> ELSE text

\* lines 486-490 of V3: the table test and the table handler
TableHandled(text) ==
    IF detect_table(text) THEN process_table_structure(text) ELSE text

\* V3 lines 480-484 and 487-490: the handler each test sends the text to,
\* as the list of the handlers applied
TocHandler(text) == IF detect_toc(text) THEN <<"toc">> ELSE <<>>
TableHandler(text) == IF detect_table(text) THEN <<"table">> ELSE <<>>

\* V3 lines 480-484: the page is handled by process_toc_structure and that
\* finds items to translate
TocWithItems(clean) == detect_toc(clean) /\ parse_toc_items(clean) # <<>>

\* translate_with_google_robust returns value to main (or leaves by an
\* exception when value is Escaped)
Return(value) ==
    /\ translated' = value
    /\ pc' = "returned"

\* the import at the head of translate_with_google_robust fails
PageImportError ==
    /\ pc = "page"
    /\ ~importOK
    /\ Return(OuterExcept("ImportError", <<>>))
    /\ failedPages' = failedPages \cup {i}
    /\ UNCHANGED <<unpaced, funVars, handlers, runVars,
                   chunkVars, chunks, results, i, clean_text, items,
                   translated_items, chunk_translations, unitVars, pageCalls,
                   pageSleeps, successful_translations>>

\* a pre-check on the text as given returns its tagged string
PageRejected ==
    /\ pc = "page"
    /\ importOK
    /\ LET tag == RawCheck(PageText)
       IN  /\ tag # PyNone
           /\ Return(tag)
    /\ failedPages' = failedPages \cup {i}
    /\ UNCHANGED <<unpaced, funVars, handlers, runVars,
                   chunkVars, chunks, results, i, clean_text, items,
                   translated_items, chunk_translations, unitVars, pageCalls,
                   pageSleeps, successful_translations>>

\* V3 line 472, V2 line 151: clean_text = safe_text_cleaning(text)
PageCleaned ==
    /\ pc = "page"
    /\ importOK
    /\ RawCheck(PageText) = PyNone
    /\ clean_text' = safe_text_cleaning(PageText)
    /\ pc' = "cleaned"
    /\ UNCHANGED <<unpaced, funVars, handlers, runVars,
                   chunkVars, chunks, results, i, translated, items,
                   translated_items, chunk_translations, unitVars, pageCalls,
                   pageSleeps, failedPages, successful_translations>>

\* a pre-check on clean_text returns its tagged string
CleanRejected ==
    /\ pc = "cleaned"
    /\ CleanCheck(clean_text) # PyNone
    /\ Return(CleanCheck(clean_text))
    /\ failedPages' = failedPages \cup {i}
    /\ UNCHANGED <<unpaced, funVars, handlers, runVars,
                   chunkVars, chunks, results, i, clean_text, items,
                   translated_items, chunk_translations, unitVars, pageCalls,
                   pageSleeps, successful_translations>>

\* V2 lines 168-193: formatted content with too little to translate
PageSkippedFormatting ==
    /\ pc = "cleaned"
    /\ CleanCheck(clean_text) = PyNone
    /\ version = "V2"
    /\ IsFormatted(clean_text)
    /\ ~FormattedWorthIt(clean_text)
    /\ Return(FormattingMsg(clean_text))
    /\ failedPages' = failedPages \cup {i}
    /\ UNCHANGED <<unpaced, funVars, handlers, runVars,
                   chunkVars, chunks, results, i, clean_text, items,
                   translated_items, chunk_translations, unitVars, pageCalls,
                   pageSleeps, successful_translations>>

\* V2 lines 168-175: formatted content, its extracted text enters the
\* retry loop of lines 175-190
PageEntersFormatted ==
    /\ pc = "cleaned"
    /\ CleanCheck(clean_text) = PyNone
    /\ version = "V2"
    /\ IsFormatted(clean_text)
    /\ FormattedWorthIt(clean_text)
    /\ clean_text' = extract_chinese_content(clean_text)
    /\ pc' = "formatted"
    /\ UNCHANGED <<unpaced, funVars, handlers, runVars,
                   chunkVars, chunks, results, i, translated, items,
                   translated_items, chunk_translations, unitVars, pageCalls,
                   pageSleeps, failedPages, successful_translations>>

\* V3 lines 480-482: a TOC page whose items process_toc_structure translates
PageEntersToc ==
    /\ pc = "cleaned"
    /\ CleanCheck(clean_text) = PyNone
    /\ version = "V3"
    /\ TocWithItems(clean_text)
    /\ items' = parse_toc_items(clean_text)
    /\ translated_items' = <<>>
    /\ pc' = "toc"
    /\ handlers' = TocHandler(clean_text)
    /\ UNCHANGED <<unpaced, funVars, runVars,
                   chunkVars, chunks, results, i, translated,
                   clean_text, chunk_translations, unitVars, pageCalls,
                   pageSleeps, failedPages, successful_translations>>

\* the text goes on to the provider: V3 lines 493-495 call smart_chunk_text
\* for a text over 1000 characters, any other text is one unit
EnterUnits(text) ==
    /\ clean_text' = text
    /\ chunk_translations' = <<>>
    /\ IF version = "V3" /\ NeedsChunking(text)
       THEN /\ pc' = "chunking"
            /\ cText' = text
            /\ cpc' = "call"
       ELSE /\ pc' = "unit"
            /\ UNCHANGED <<cText, cpc>>
    /\ UNCHANGED <<cMax, cOverlap, current_pos, chunks>>

\* V3 lines 486-495 for a page that is no TOC with items, V2 lines 196-200
\* (the text is cut at 2000 characters) for a page that is not formatted
PageEntersUnits ==
    /\ pc = "cleaned"
    /\ CleanCheck(clean_text) = PyNone
    /\ \/ version = "V3" /\ ~TocWithItems(clean_text)
       \/ version = "V2" /\ ~IsFormatted(clean_text)
    /\ EnterUnits(IF version = "V3" THEN TableHandled(clean_text)
                  ELSE Truncate2000(clean_text))
    /\ handlers' = IF version = "V3"
                   THEN TocHandler(clean_text) \o TableHandler(clean_text)
                   ELSE <<>>
    /\ UNCHANGED <<unpaced, funVars, runVars,
                   results, i, translated, items, translated_items,
                   unitVars, pageCalls, pageSleeps, failedPages,
                   successful_translations>>

\* process_toc_structure, lines 367-380: item number j of items[:5] goes
\* through translate_toc_item (one provider call unless its title is too
\* short) and a sleep of 0.5 s follows; after the last one the other items
\* are added as they are, the lines are joined and translate_with_google_robust
\* goes on with the joined text (lines 484-495)
TocItem ==
    /\ pc = "toc"
    /\ LET j == Len(translated_items) + 1
           item == items[j]
           last == ItemsToTranslate(items)
       IN  \E o \in (IF TocItemSkipped(item) THEN {NoReply} ELSE Outcomes) :
             LET line == IF ReplyTruthy(o) THEN TocLine(item, o.text)
                         ELSE item.original_line
                 done == Append(translated_items, line)
                 all == done \o [k \in 1..(Len(items) - last) |->
                                    items[last + k].original_line]
             IN  /\ j <= last
                 /\ lastReply' = o
                 /\ pageCalls' = pageCalls + (IF TocItemSkipped(item) THEN 0 ELSE 1)
                 /\ pageSleeps' = pageSleeps + 1
                 /\ unpaced' = FALSE
                 /\ IF j < last
                    THEN /\ translated_items' = done
                         /\ UNCHANGED <<pc, clean_text, chunks, chunkVars,
                                        chunk_translations, handlers>>
                    ELSE /\ translated_items' = all
                         /\ EnterUnits(TableHandled(JoinLines(all)))
                         /\ handlers' =
                               handlers \o TableHandler(JoinLines(all))
    /\ UNCHANGED <<funVars, runVars,
                   results, i, translated, items, attempt, calls,
                   sleeps, unitKind, unitState, unitResult, failedPages,
                   successful_translations>>

\* V3 line 495: smart_chunk_text has returned the chunks of the page
ChunksReturned ==
    /\ pc = "chunking"
    /\ cpc = "done"
    /\ pc' = "unit"
    /\ cpc' = "idle"
    /\ UNCHANGED <<unpaced, funVars, handlers, runVars,
                   cText, cMax, cOverlap, current_pos, chunks,
                   results, i, translated, clean_text, items,
                   translated_items, chunk_translations, unitVars, pageCalls,
                   pageSleeps, failedPages, successful_translations>>

\* the unit kind of the retry loop the run is in
KindNow ==
    IF pc = "formatted" THEN "formatted"
    ELSE IF chunks # <<>> THEN "chunk" ELSE "text"

\* the counters of the unit after one more provider call: attempt 0 is the
\* first call of a new unit
CallsNow == IF attempt = 0 THEN 1 ELSE calls + 1
SleepsSoFar == IF attempt = 0 THEN <<>> ELSE sleeps

\* lines 540-543 of V3, 219-222 of V2: the sleeps of the unit after a failed
\* attempt
SleepsAfterFailure ==
    IF SleepsAfter(attempt) THEN Append(SleepsSoFar, Backoff(attempt))
    ELSE SleepsSoFar

\* the unit returned result: V3 lines 501-511, the next chunk follows after
\* a sleep of 1 s, or the (merged) translation is returned; slept is the
\* number of sleeps the last attempt added
UnitReturns(result, slept) ==
    /\ unitResult' = result
    /\ attempt' = 0
    /\ IF chunks # <<>> /\ Len(chunk_translations) + 1 < Len(chunks)
       THEN /\ chunk_translations' = Append(chunk_translations, result)
            /\ pageSleeps' = pageSleeps + slept + 1
            /\ unpaced' = FALSE
            /\ UNCHANGED <<pc, translated>>
       ELSE /\ chunk_translations' =
                    IF chunks # <<>> THEN Append(chunk_translations, result)
                    ELSE chunk_translations
            /\ pageSleeps' = pageSleeps + slept
            /\ unpaced' = (slept = 0)
            /\ Return(IF chunks # <<>>
                      THEN merge_chunk_translations(Append(chunk_translations, result))
                      ELSE result)

\* translate_single_text (V3 lines 526-534) and the loop of V2 lines
\* 203-212: the provider returns a text that is not blank, the unit returns
\* it
UnitSucceeds ==
    /\ pc = "unit"
    /\ \E o \in Outcomes :
          /\ ReplyValid(o)
          /\ lastReply' = o
          /\ UnitReturns(o.text, 0)
    /\ calls' = CallsNow
    /\ pageCalls' = pageCalls + 1
    /\ sleeps' = SleepsSoFar
    /\ unitKind' = KindNow
    /\ unitState' = "ok"
    /\ UNCHANGED <<funVars, handlers, runVars,
                   chunkVars, chunks, results, i, clean_text, items,
                   translated_items, failedPages, successful_translations>>

\* the attempt fails (exception, None, empty or blank text) and is not the
\* last one: the backoff sleep, then the next attempt
UnitRetries ==
    /\ pc = "unit"
    /\ ~LoopEnds(attempt)
    /\ \E o \in Outcomes : ~ReplyValid(o)
    /\ lastReply' = NoReply
    /\ calls' = CallsNow
    /\ pageCalls' = pageCalls + 1
    /\ sleeps' = SleepsAfterFailure
    /\ pageSleeps' = pageSleeps + (IF SleepsAfter(attempt) THEN 1 ELSE 0)
    /\ unpaced' = ~SleepsAfter(attempt)
    /\ unitKind' = KindNow
    /\ unitState' = "running"
    /\ attempt' = attempt + 1
    /\ UNCHANGED <<funVars, handlers, runVars,
                   chunkVars, chunks, results, i, pc, translated,
                   clean_text, items, translated_items, chunk_translations,
                   unitResult, failedPages, successful_translations>>

\* the last attempt fails: the unit returns the tagged string of line 545
\* (V3) / 224 (V2)
UnitGivesUp ==
    /\ pc = "unit"
    /\ LoopEnds(attempt)
    /\ \E o \in Outcomes : ~ReplyValid(o)
    /\ lastReply' = NoReply
    /\ calls' = CallsNow
    /\ pageCalls' = pageCalls + 1
    /\ sleeps' = SleepsAfterFailure
    /\ unitKind' = KindNow
    /\ unitState' = "failed"
    /\ UnitReturns(FailedMsg, IF SleepsAfter(attempt) THEN 1 ELSE 0)
    /\ failedPages' = failedPages \cup {i}
    /\ UNCHANGED <<funVars, handlers, runVars,
                   chunkVars, chunks, results, i, clean_text, items,
                   translated_items, successful_translations>>

\* V2 lines 175-182: the provider returns a text for the extracted content,
\* the call returns it behind the tag '[TOC] '
FormattedSucceeds ==
    /\ pc = "formatted"
    /\ \E o \in Outcomes :
          /\ ReplyTruthy(o)
          /\ lastReply' = o
          /\ unitResult' = TocTagged(o.text)
          /\ Return(TocTagged(o.text))
    /\ unpaced' = TRUE
    /\ calls' = CallsNow
    /\ pageCalls' = pageCalls + 1
    /\ sleeps' = SleepsSoFar
    /\ unitKind' = KindNow
    /\ unitState' = "ok"
    /\ attempt' = 0
    /\ UNCHANGED <<funVars, handlers, runVars,
                   chunkVars, chunks, results, i, clean_text, items,
                   translated_items, chunk_translations, pageSleeps,
                   failedPages, successful_translations>>

\* V2 lines 183-190: the sleep of an attempt of the formatted loop, which is
\* in the except branch
FormattedSleeps(o) ==
    IF o.kind = "raise" /\ SleepsAfter(attempt)
    THEN Append(SleepsSoFar, Backoff(attempt))
    ELSE SleepsSoFar

\* V2 lines 183-190: a failed attempt of the formatted loop that is not the
\* last one
FormattedRetries ==
    /\ pc = "formatted"
    /\ ~LoopEnds(attempt)
    /\ lastReply' = NoReply
    /\ \E o \in Outcomes :
          /\ ~ReplyTruthy(o)
          /\ sleeps' = FormattedSleeps(o)
          /\ pageSleeps' = pageSleeps + Len(FormattedSleeps(o)) - Len(SleepsSoFar)
          /\ unpaced' = (Len(FormattedSleeps(o)) = Len(SleepsSoFar))
    /\ calls' = CallsNow
    /\ pageCalls' = pageCalls + 1
    /\ unitKind' = KindNow
    /\ unitState' = "running"
    /\ attempt' = attempt + 1
    /\ UNCHANGED <<funVars, handlers, runVars,
                   chunkVars, chunks, results, i, pc, translated,
                   clean_text, items, translated_items, chunk_translations,
                   unitResult, failedPages, successful_translations>>

\* V2 line 192: the last attempt of the formatted loop fails
FormattedGivesUp ==
    /\ pc = "formatted"
    /\ LoopEnds(attempt)
    /\ lastReply' = NoReply
    /\ \E o \in Outcomes :
          /\ ~ReplyTruthy(o)
          /\ sleeps' = FormattedSleeps(o)
          /\ pageSleeps' = pageSleeps + Len(FormattedSleeps(o)) - Len(SleepsSoFar)
          /\ unpaced' = (Len(FormattedSleeps(o)) = Len(SleepsSoFar))
    /\ unitResult' = TocFailedMsg
    /\ Return(TocFailedMsg)
    /\ calls' = CallsNow
    /\ pageCalls' = pageCalls + 1
    /\ unitKind' = KindNow
    /\ unitState' = "failed"
    /\ attempt' = 0
    /\ failedPages' = failedPages \cup {i}
    /\ UNCHANGED <<funVars, handlers, runVars,
                   chunkVars, chunks, results, i, clean_text, items,
                   translated_items, chunk_translations,
                   successful_translations>>

\* a faulty record numbered by the loop counter i instead of page_num
PageRecordByIndex(k, page, translated_text) ==
    [page_number |-> k, original_text |-> page.text,
     translated_text |-> translated_text]

\* main, V3 lines 980-987 and V2 lines 701-708: the record of one page, made
\* of its page_num, its text and what the translator returned
PageRecord(k, page, translated_text) ==
    [page_number |-> page.page_number, original_text |-> page.text,
     translated_text |-> translated_text]

\* main, V3 lines 973-990 and V2 lines 687-714: the call has returned, its
\* result is recorded (the slice translated[:100] and len(translated) need
\* a string) and the loop goes to the next page, or to create_outputs after
\* the last one; an exception leaving the call ends the run
RecordPage ==
    /\ pc = "returned"
    /\ IF IsStr(translated)
       THEN /\ results' = Append(results, PageRecord(i, pages[i], translated))
            /\ i' = i + 1
            /\ pc' = IF i < Len(pages) THEN "page" ELSE "save"
            /\ unpaced' = IF i < Len(pages) THEN FALSE ELSE unpaced
       ELSE /\ pc' = "crashed"
            /\ UNCHANGED <<results, i, unpaced>>
    /\ translated' = <<>>
    /\ clean_text' = <<>>
    /\ items' = <<>>
    /\ translated_items' = <<>>
    /\ chunk_translations' = <<>>
    /\ chunks' = <<>>
    /\ cText' = <<>>
    /\ current_pos' = 0
    /\ cpc' = "idle"
    /\ attempt' = 0
    /\ calls' = 0
    /\ sleeps' = <<>>
    /\ unitKind' = "none"
    /\ unitState' = "none"
    /\ unitResult' = <<>>
    /\ lastReply' = NoReply
    /\ pageCalls' = 0
    /\ pageSleeps' = 0
    /\ handlers' = <<>>
    /\ UNCHANGED <<funVars, runVars,
                   cMax, cOverlap, failedPages,
                   successful_translations>>

\* create_outputs, line 554 of V3: the pages whose translated_text does not
\* start with '[' are counted as successful
CountSuccessful(rs) ==
    Cardinality({k \in 1..Len(rs) : ~StartsWithBracket(rs[k].translated_text)})

Save ==
    /\ pc = "save"
    /\ successful_translations' = CountSuccessful(results)
    /\ pc' = "end"
    /\ UNCHANGED <<unpaced, funVars, handlers, runVars,
                   chunkVars, chunks, results, i, translated,
                   clean_text, items, translated_items, chunk_translations,
                   unitVars, pageCalls, pageSleeps, failedPages>>

Next ==
    \/ PageImportError
    \/ PageRejected
    \/ PageCleaned
    \/ CleanRejected
    \/ PageSkippedFormatting
    \/ PageEntersFormatted
    \/ PageEntersToc
    \/ PageEntersUnits
    \/ TocItem
    \/ ChunkEnter
    \/ ChunkSplit
    \/ ChunkFinal
    \/ ChunksReturned
    \/ UnitSucceeds
    \/ UnitRetries
    \/ UnitGivesUp
    \/ FormattedSucceeds
    \/ FormattedRetries
    \/ FormattedGivesUp
    \/ RecordPage
    \/ Save

Spec == Init /\ [][Next]_vars

(***************************************************************************)
(* Claims about translate_with_google_robust and the page loop             *)
(***************************************************************************)
\* C1: whatever the text and whatever the provider does, the call of
\* translate_with_google_robust returns a string to main: no exception
\* leaves it, what it returns is a string, and it is never caught in a loop
\* it cannot leave.  The while loop of smart_chunk_text depends on
\* current_pos alone, so once it is back at an offset it has cut a chunk
\* from it repeats itself for ever.
C1_ReturnsString ==
    /\ pc # "crashed"
    /\ pc = "returned" => IsStr(translated)
    /\ ~(/\ pc = "chunking"
         /\ cpc = "loop"
         /\ \E k \in 1..Len(chunks) : chunks[k].start_index = current_pos)

\* C2: a unit (a page text or a chunk) makes at most 5 provider calls; a
\* reply whose text is not None and not empty after trimming ends the unit
\* at that call, with no sleep after it, and its text is what the unit
\* returns; no other reply ends a unit as translated.
C2_FirstValidReplyEndsUnit ==
    unitKind \in {"text", "chunk"} =>
        /\ calls <= 5
        /\ unitState = "ok" <=>
              /\ lastReply.kind = "result"
              /\ lastReply.text # PyNone
              /\ lastReply.text # <<>>
              /\ \E k \in 1..Len(lastReply.text) : lastReply.text[k] \notin Whitespace
        /\ unitState = "ok" =>
              /\ unitResult = lastReply.text
              /\ Len(sleeps) = calls - 1

\* a chunk was translated at its third call, after two failed attempts
C2_Witness ==
    /\ unitKind = "chunk"
    /\ unitState = "ok"
    /\ calls = 3
    /\ unitResult = <<"O", "K">>

\* C3: a unit all of whose attempts fail makes exactly 5 provider calls and
\* returns exactly "[Translation failed after 5 attempts]": a unit gives up
\* only after its fifth call, and after five calls without a translation
\* it has given up.
C3_FiveFailuresGiveTag ==
    unitKind \in {"text", "chunk"} =>
        /\ unitState = "failed" =>
              /\ calls = 5
              /\ unitResult =
                    <<"[", "T", "r", "a", "n", "s", "l", "a", "t", "i", "o",
                      "n", " ", "f", "a", "i", "l", "e", "d", " ", "a", "f",
                      "t", "e", "r", " ", "5", " ", "a", "t", "t", "e", "m",
                      "p", "t", "s", "]">>
        /\ (calls >= 5 /\ unitState # "ok") => unitState = "failed"

\* a page text failed at all five calls and the tagged string was returned
\* to main
C3_Witness ==
    /\ unitKind = "text"
    /\ unitState = "failed"
    /\ calls = 5
    /\ pc = "returned"
    /\ translated = FailedMsg

C5_FailureShowsBracket ==
    /\ \A k \in 1..Len(results) :
          k \in failedPages => StartsWithBracket(results[k].translated_text)
    /\ pc = "end" =>
          successful_translations <= Len(results) - Cardinality(failedPages)

\* C6: the page loop is not left because of what a page's translation gave:
\* the records follow the pages one by one, in order and with their
\* page_number, and after the loop there is one record for every page.
C6_OneRecordPerPage ==
    /\ pc # "crashed"
    /\ Len(results) = i - 1
    /\ Len(results) <= Len(pages)
    /\ \A k \in 1..Len(results) :
          /\ results[k].page_number = pages[k].page_number
          /\ results[k].original_text = pages[k].text
    /\ pc \in {"save", "end"} => Len(results) = Len(pages)

\* a run of two pages ended with both records, the first page having
\* failed and the second one translated
C6_Witness ==
    /\ pc = "end"
    /\ Len(results) = 2
    /\ failedPages = {1}
    /\ results[1].translated_text = FailedMsg
    /\ results[2].translated_text = <<"O", "K">>

\* C7: a text that a pre-check rejects (empty, the marker 'None', empty
\* after safe_text_cleaning, or under 5 characters after it) makes the call
\* return at once a string that starts with '[', with no provider call and
\* no sleep made for the page; for a too-short text that string holds
\* clean_text as it is; and a clean_text of exactly 5 characters does not
\* make the call return at the pre-checks.
C7_PreCheckRejects ==
    [][/\ (/\ pc = "page"
           /\ importOK
           /\ (PageText = <<>> \/ Strip(PageText) = NoneStr))
          => /\ pc' = "returned"
             /\ StartsWithBracket(translated')
             /\ pageCalls' = 0
             /\ pageSleeps' = 0
       /\ (pc = "cleaned" /\ Len(clean_text) < 5)
          => /\ pc' = "returned"
             /\ StartsWithBracket(translated')
             /\ pageCalls' = 0
             /\ pageSleeps' = 0
             /\ clean_text # <<>> => Contains(translated', clean_text)
       /\ (pc = "cleaned" /\ Len(clean_text) = 5) => pc' # "returned"
      ]_vars

\* the text ' a  bc ' was returned as too short, with its clean_text 'a bc'
\* inside and no provider call made
C7_Witness ==
    /\ pc = "returned"
    /\ pages[i].text = "short"
    /\ translated = TooShortPrefix \o <<"a", " ", "b", "c">> \o TooShortSuffix
    /\ pageCalls = 0

\* C12: a page gets exactly one of the labels TOC, TABLE, PLAIN, tested in
\* that order: at most one handler is applied to it, and the table handler
\* is not applied to a page the TOC handler was applied to.
C12_OneHandlerPerPage ==
    handlers \in {<<>>, <<"toc">>, <<"table">>}

\* C15: a TOC item's title is translated under the retry policy of a page:
\* when process_toc_structure has gone through the items, an item whose
\* title was sent to the provider has its original line in the output only
\* after 5 failed calls with the 4 backoff sleeps between them (the sleep
\* of 0.5 s after each item comes on top).
C15_TocItemRetried ==
    (/\ version = "V3"
     /\ pc \in {"unit", "chunking"}
     /\ items # <<>>
     /\ Len(translated_items) = Len(items)
     /\ calls = 0)
    => \A j \in 1..Min2(5, Len(items)) :
          (/\ ~TocItemSkipped(items[j])
           /\ translated_items[j] = items[j].original_line)
          => (pageCalls >= 5 /\ pageSleeps >= 4 + Min2(5, Len(items)))

\* C19: a page more than 15% of whose characters are '.' is classified as
\* TOC when it goes through translate_with_google_robust: once the tests of
\* lines 480-490 have run, the TOC handler is the first handler applied.
C19_DotHeavyPageIsToc ==
    (/\ version = "V3"
     /\ pc \in {"toc", "chunking", "unit"}
     /\ 100 * Count(PageText, ".") > 15 * Len(PageText))
    => (handlers # <<>> /\ handlers[1] = "toc")

\* C20: with 0 <= overlap < max_length the loop of smart_chunk_text makes
\* progress: every chunk starts at a greater offset than the chunk before
\* it, so the 'final' chunk comes after finitely many chunks.
C20_StartsIncrease ==
    \A k \in 2..Len(chunks) :
        chunks[k].start_index > chunks[k - 1].start_index

(***************************************************************************)
(* The text utilities followed call by call: calculate_dynamic_timeout     *)
(* and safe_text_cleaning                                                  *)
(***************************************************************************)
\* the text lengths handed to calculate_dynamic_timeout are the multiples
\* of 50 up to 50 * MaxTimeoutSteps
MaxTimeoutSteps == 320
\* most pieces a text handed to safe_text_cleaning is made of
MaxCleanPieces == 5
\* most pieces a text handed to find_best_split_point is made of
MaxSplitPieces == 5
\* most lines of a text handed to process_toc_structure
MaxTocItemLines == 6

\* the chunker at rest, with the arguments the pipeline gives it
ChunkIdle ==
    /\ cText = <<>>
    /\ cMax = 800
    /\ cOverlap = 100
    /\ current_pos = 0
    /\ chunks = <<>>
    /\ cpc = "idle"

TimeoutLengths == {50 * k : k \in 0..MaxTimeoutSteps}

\* all sequences of at most n elements of S
SeqsUpTo(S, n) == UNION {[1..k -> S] : k \in 0..n}

\* the pieces the texts handed to safe_text_cleaning are put together from
CleanPieces ==
    {NoneStr, <<" ">>, <<"\n">>, <<"a">>, <<".">>, <<"N">>}

CleanTexts == {ConcatAll(q) : q \in SeqsUpTo(CleanPieces, MaxCleanPieces)}

\* the pieces the texts handed to find_best_split_point are put together
\* from, and the values of max_length: with 10 the offsets 8, 9 and 10 are
\* past 70% and 9 and 10 are past 80%
SplitPieces ==
    {<<"a", "a", "a">>, <<"a">>, <<".">>, <<",">>, <<" ">>, <<"\n", "\n">>}

SplitTexts == {ConcatAll(q) : q \in SeqsUpTo(SplitPieces, MaxSplitPieces)}

SplitLengths == {3, 10}

\* the lines the texts handed to process_toc_structure are made of: an item
\* with the title 'ab', an item whose title 'a' is too short to translate,
\* and a line that is no item
TocLineKinds ==
    { <<"1", ".", "a", "b", ".">>, <<"2", ".", "a", ".">>, <<"z">> }

StructTexts == {JoinLines(q) : q \in SeqsUpTo(TocLineKinds, MaxTocItemLines)}

InitText ==
    /\ \/ fn = "calculate_dynamic_timeout" /\ arg \in TimeoutLengths
       \/ fn = "safe_text_cleaning" /\ arg \in CleanTexts
       \/ /\ fn = "find_best_split_point"
          /\ arg \in [text : SplitTexts, max_length : SplitLengths]
       \/ fn = "process_toc_structure" /\ arg \in StructTexts
    /\ ret = [pc |-> "call"]
    /\ ChunkIdle
    /\ PipelineIdle

\* V2 lines 129-135
CalculateDynamicTimeout ==
    /\ fn = "calculate_dynamic_timeout"
    /\ ret.pc = "call"
    /\ ret' = [pc |-> "done", value |-> calculate_dynamic_timeout(arg)]
    /\ UNCHANGED <<fn, arg, chunkVars, chunks, pipeVars>>

\* V3 lines 418-447, V2 lines 65-101
SafeTextCleaning ==
    /\ fn = "safe_text_cleaning"
    /\ ret.pc = "call"
    /\ ret' = [pc |-> "done", value |-> safe_text_cleaning(arg)]
    /\ UNCHANGED <<fn, arg, chunkVars, chunks, pipeVars>>

\* V3 lines 95-136
FindBestSplitPoint ==
    /\ fn = "find_best_split_point"
    /\ ret.pc = "call"
    /\ ret' = [pc |-> "done",
               value |-> find_best_split_point(arg.text, arg.max_length)]
    /\ UNCHANGED <<fn, arg, chunkVars, chunks, pipeVars>>

\* process_toc_structure, V3 lines 359-364: the items are parsed; the text
\* is returned as it is when there is none
ProcessTocBegin ==
    /\ fn = "process_toc_structure"
    /\ ret.pc = "call"
    /\ LET parsed == parse_toc_items(arg)
       IN  ret' = IF parsed = <<>>
                  THEN [pc |-> "done", value |-> arg, calls |-> 0]
                  ELSE [pc |-> "items", items |-> parsed,
                        translated_items |-> <<>>, calls |-> 0]
    /\ UNCHANGED <<fn, arg, chunkVars, chunks, pipeVars>>

\* lines 367-372 with translate_toc_item, lines 315-345: the next item of
\* items[:5] is translated by one provider call, or kept as its original
\* line when its title is too short or the call gives no text
ProcessTocItem ==
    /\ fn = "process_toc_structure"
    /\ ret.pc = "items"
    /\ Len(ret.translated_items) < ItemsToTranslate(ret.items)
    /\ LET item == ret.items[Len(ret.translated_items) + 1]
       IN  \E o \in (IF TocItemSkipped(item) THEN {NoReply} ELSE Outcomes) :
              ret' = [ret EXCEPT
                         !.translated_items =
                             Append(@, IF ReplyTruthy(o)
                                       THEN TocLine(item, o.text)
                                       ELSE item.original_line),
                         !.calls = @ + (IF TocItemSkipped(item) THEN 0 ELSE 1)]
    /\ UNCHANGED <<fn, arg, chunkVars, chunks, pipeVars>>

\* lines 375-380: the items after the fifth are added as their original
\* lines and the lines are joined
ProcessTocReturn ==
    /\ fn = "process_toc_structure"
    /\ ret.pc = "items"
    /\ Len(ret.translated_items) >= ItemsToTranslate(ret.items)
    /\ LET done == Len(ret.translated_items)
           rest == [k \in 1..(Len(ret.items) - done) |->
                       ret.items[done + k].original_line]
       IN  ret' = [pc |-> "done",
                   value |-> JoinLines(ret.translated_items \o rest),
                   calls |-> ret.calls]
    /\ UNCHANGED <<fn, arg, chunkVars, chunks, pipeVars>>

NextText ==
    \/ CalculateDynamicTimeout
    \/ SafeTextCleaning
    \/ FindBestSplitPoint
    \/ ProcessTocBegin
    \/ ProcessTocItem
    \/ ProcessTocReturn

SpecText == InitText /\ [][NextText]_vars

\* C16 as stated: the timeout for a text of L characters is
\* min(30 + floor(L / 100) * 10, 180) seconds.
C16_TimeoutTenPerHundred ==
    (fn = "calculate_dynamic_timeout" /\ ret.pc = "done")
    => ret.value = Min2(30 + (arg \div 100) * 10, 180)

\* C16, amended: the timeout for a text of L characters is
\* min(30 + floor(L / 100), 180) seconds: one second per 100 characters on
\* top of 30, at most 180, which is reached from 15,000 characters on.
C16_TimeoutOnePerHundred ==
    (fn = "calculate_dynamic_timeout" /\ ret.pc = "done")
    => /\ ret.value = Min2(30 + (arg \div 100), 180)
       /\ ret.value >= 30
       /\ ret.value <= 180
       /\ (ret.value = 180 <=> arg >= 15000)

\* the timeout of a text of 16,000 characters was capped at 180
C16_Witness ==
    /\ fn = "calculate_dynamic_timeout"
    /\ ret.pc = "done"
    /\ arg = 16000
    /\ ret.value = 180

\* the texts made only of whitespace and of tokens 'None'
NoneOnlyTexts ==
    {ConcatAll(q) :
        q \in {r \in SeqsUpTo({NoneStr, <<" ">>, <<"\n">>}, MaxCleanPieces) :
                  \A k \in 1..(Len(r) - 1) :
                      ~(r[k] = NoneStr /\ r[k + 1] = NoneStr)}}

\* C17: for a text made only of whitespace and of tokens equal to 'None',
\* safe_text_cleaning returns the empty string.
C17_NoneTokensCleanedAway ==
    (fn = "safe_text_cleaning" /\ ret.pc = "done" /\ arg \in NoneOnlyTexts)
    => ret.value = <<>>

\* the text 'None' newline 'None' was cleaned to the empty string
C17_Witness ==
    /\ fn = "safe_text_cleaning"
    /\ ret.pc = "done"
    /\ arg = NoneStr \o <<"\n">> \o NoneStr
    /\ ret.value = <<>>

(***************************************************************************)
(* toc_structure_parser.py: the section numbers of TOCStructureParser      *)
(***************************************************************************)

\* [\u4e00-\u9fff], with u7AE0 (the chapter mark) and u7B2C (the ordinal
\* mark) of the patterns of extract_section_from_text
IsCjk(c) == c \in Ideographs \cup {"u7AE0", "u7B2C"}

\* [A-Z]
IsUpper(c) ==
    c \in {"A", "B", "C", "D", "E", "F", "G", "H", "I", "J", "K", "L", "M",
           "N", "O", "P", "Q", "R", "S", "T", "U", "V", "W", "X", "Y", "Z"}

\* (?:\.\d+){0,most} matched greedily after index e: the index of the last
\* character matched
RECURSIVE DotGroupsEnd(_, _, _)
DotGroupsEnd(s, e, most) ==
    IF most > 0 /\ e + 2 <= Len(s) /\ s[e + 1] = "." /\ IsDigit(s[e + 2])
    THEN DotGroupsEnd(s, SkipDigits(s, e + 2) - 1, most - 1)
    ELSE e

\* \d+(?:\.\d+){least,4} matched greedily from index p: the index of the last
\* character matched, 0 when there is no match.  Every pattern of the parser
\* continues with something other than a digit or a dot, so a shorter match
\* of the number never lets the whole pattern match.
SectionNumberEnd(s, p, least) ==
    IF p >= 1 /\ p <= Len(s) /\ IsDigit(s[p])
    THEN LET e == DotGroupsEnd(s, SkipDigits(s, p) - 1, 4)
         IN  IF Count(SubSeq(s, p, e), ".") >= least THEN e ELSE 0
    ELSE 0

\* match.group(1) of the leftmost match, given the set P of the indices at
\* which the number of a match can start
SectionAt(s, P, least) ==
    IF P = {} THEN PyNone
    ELSE SubSeq(s, SetMin(P), SectionNumberEnd(s, SetMin(P), least))

\* the indices just after ^ or after a newline: (?:^|\n)
LineStarts(s) == {1} \cup {q + 1 : q \in {r \in 1..Len(s) : s[r] = "\n"}}

\* \s+[^\d\n] after the number ending at e
TitleFollows(s, e) ==
    /\ e > 0
    /\ e + 1 <= Len(s)
    /\ IsWs(s[e + 1])
    /\ \E x \in (e + 2)..Min2(SkipWs(s, e + 1), Len(s)) :
           ~IsDigit(s[x]) /\ s[x] # "\n"

\* \s* and one character of the set marks after the number ending at e
MarkFollows(s, e, marks) ==
    /\ e > 0
    /\ SkipWs(s, e + 1) <= Len(s)
    /\ s[SkipWs(s, e + 1)] \in marks

\* group(1) of the leftmost match of patterns[k - 1], lines 100-112
\* (PyNone when there is no match):
\*   1  ^(\d+(?:\.\d+){0,4})\s+[^\d\n]
\*   2  \n(\d+(?:\.\d+){0,4})\s+[^\d\n]
\*   3  u7B2C?\s*(\d+(?:\.\d+){0,4})\s*u7AE0
\*   4  (\d+(?:\.\d+){0,4})\s*[u3001uFF0C]
\*   5  (?:^|\n)(\d+(?:\.\d+){0,4})\s*[\u4e00-\u9fff]
\*   6  (?:^|\n)(\d+(?:\.\d+){0,4})\s+[A-Z]
\*   7  (?:^|\n)(\d+(?:\.\d+){1,4})(?:\s|$)
\* The optional prefix of pattern 3 never changes which number the leftmost
\* match captures.
SectionPattern(s, k) ==
    LET least == IF k = 7 THEN 1 ELSE 0
        starts == CASE k = 1 -> {1}
                    [] k = 2 -> LineStarts(s) \ {1}
                    [] k \in {3, 4} -> 1..Len(s)
                    [] OTHER -> LineStarts(s)
        Follows(e) ==
            CASE k \in {1, 2} -> TitleFollows(s, e)
              [] k = 3 -> MarkFollows(s, e, {"u7AE0"})
              [] k = 4 -> MarkFollows(s, e, {"u3001", "uFF0C"})
              [] k = 5 -> /\ e > 0
                          /\ SkipWs(s, e + 1) <= Len(s)
                          /\ IsCjk(s[SkipWs(s, e + 1)])
              [] k = 6 -> /\ e > 0
                          /\ e + 1 <= Len(s)
                          /\ IsWs(s[e + 1])
                          /\ SkipWs(s, e + 1) <= Len(s)
                          /\ IsUpper(s[SkipWs(s, e + 1)])
              [] OTHER -> /\ e > 0
                          /\ (e = Len(s) \/ IsWs(s[e + 1]))
    IN  SectionAt(s, {p \in starts : Follows(SectionNumberEnd(s, p, least))},
                  least)

\* the validity test of line 120
SectionValidUpToEleven(section) ==
    Len(section) <= 11 /\ Count(section, ".") <= 4

SectionValid(section) ==
    Len(section) <= 10 /\ Count(section, ".") <= 4

\* extract_section_from_text, lines 84-125: the first pattern, in the listed
\* order, whose leftmost match captures a valid section number
extract_section_from_text(text) ==
    LET search_text == Slice(text, 0, 2000)
        found == [k \in 1..7 |-> SectionPattern(search_text, k)]
        valid == {k \in 1..7 : found[k] # PyNone /\ SectionValid(found[k])}
    IN  IF valid = {} THEN PyNone ELSE found[SetMin(valid)]

(***************************************************************************)
(* toc_structure_parser.py: parse_toc_text                                 *)
(***************************************************************************)

\* TOCItem, lines 15-22; page is <<>> for None and <<n>> for the integer n
TOCItem(number, title, level, page, parent) ==
    [number |-> number, title |-> title, level |-> level, page |-> page,
     parent |-> parent]

\* int(digits) of line 63
DigitValue(c) ==
    CHOOSE n \in 0..9 :
        <<"0", "1", "2", "3", "4", "5", "6", "7", "8", "9">>[n + 1] = c

RECURSIVE PyInt(_)
PyInt(digits) ==
    IF digits = <<>> THEN 0
    ELSE 10 * PyInt(SubSeq(digits, 1, Len(digits) - 1))
            + DigitValue(digits[Len(digits)])

\* (\d+(?:\.\d+){1,4})\s+ with the number starting at index p: the indices at
\* which the title group can start (\s+ gives back whitespace to the title
\* when the rest of the pattern does not match otherwise)
TitleStarts(line, p) ==
    LET e == SectionNumberEnd(line, p, 1)
    IN  IF e = 0 \/ e + 1 > Len(line) \/ ~IsWs(line[e + 1]) THEN {}
        ELSE (e + 2)..Min2(SkipWs(line, e + 1), Len(line))

\* all the rest of the line from index x on is digits: \d+$
DigitsToEnd(line, x) ==
    x <= Len(line) /\ \A m \in x..Len(line) : IsDigit(line[m])

\* the end of section_patterns[k] matches after a title ending at index b:
\*   1  (?:\s+\.{2,}|\s+(?=\d+$)|$)
\*   2  \s+\.{2,}\s*(\d+)
\*   3  (?:\s+\d+)?$
TitleStops(line, b, k) ==
    LET x == SkipWs(line, b + 1)
        gap == b + 1 <= Len(line) /\ IsWs(line[b + 1])
        dots == x + 1 <= Len(line) /\ line[x] = "." /\ line[x + 1] = "."
    IN  CASE k = 1 -> \/ b = Len(line)
                      \/ gap /\ (dots \/ DigitsToEnd(line, x))
          [] k = 2 -> /\ gap
                      /\ dots
                      /\ LET y == SkipWs(line, SkipDots(line, x))
                         IN  y <= Len(line) /\ IsDigit(line[y])
          [] OTHER -> \/ b = Len(line)
                      \/ gap /\ DigitsToEnd(line, x)

\* the indices at which the title group (.+? or [^\d]+?) of
\* section_patterns[k] can end when it starts at index t
TitleEnds(line, t, k) ==
    {b \in t..Len(line) :
        /\ \A m \in t..b :
              IF k = 3 THEN ~IsDigit(line[m]) ELSE line[m] # "\n"
        /\ TitleStops(line, b, k)}

\* match.groups() of re.search(section_patterns[k], line), <<>> when there is
\* no match: the leftmost start, then the longest \s+, then the shortest
\* title
SectionPatternGroups(line, k) ==
    LET P == {p \in 1..Len(line) :
                 \E t \in TitleStarts(line, p) : TitleEnds(line, t, k) # {}}
    IN  IF P = {} THEN <<>>
        ELSE LET p == SetMin(P)
                 t == SetMax({u \in TitleStarts(line, p) :
                                 TitleEnds(line, u, k) # {}})
                 b == SetMin(TitleEnds(line, t, k))
                 number == SubSeq(line, p, SectionNumberEnd(line, p, 1))
                 title == SubSeq(line, t, b)
                 y == SkipWs(line, SkipDots(line, SkipWs(line, b + 1)))
             IN  IF k = 2
                 THEN <<number, title,
                        SubSeq(line, y, SkipDigits(line, y) - 1)>>
                 ELSE <<number, title>>

\* number.split('.')[:-1] joined with '.', line 69
ParentNumber(number) ==
    IF Count(number, ".") = 0 THEN PyNone
    ELSE SubSeq(number, 1,
                SetMax({d \in 1..Len(number) : number[d] = "."}) - 1)

\* lines 56-79 for one stripped line: the item of the first pattern that
\* matches, as a sequence of zero or one TOCItem
TocItemOfLine(line) ==
    LET groups == [k \in 1..3 |-> SectionPatternGroups(line, k)]
        hit == {k \in 1..3 : groups[k] # <<>>}
    IN  IF hit = {} THEN <<>>
        ELSE LET g == groups[SetMin(hit)]
                 number == g[1]
             IN  << TOCItem(number, Strip(g[2]), Count(number, ".") + 1,
                            IF Len(g) > 2 /\ g[3] # <<>>
                            THEN <<PyInt(g[3])>> ELSE <<>>,
                            ParentNumber(number)) >>

\* parse_toc_text, lines 38-82
parse_toc_text(toc_text) ==
    LET lines == Lines(toc_text)
        stripped == [k \in 1..Len(lines) |-> Strip(lines[k])]
    IN  ConcatAll([k \in 1..Len(stripped) |->
                      IF stripped[k] = <<>> THEN <<>>
                      ELSE TocItemOfLine(stripped[k])])

(***************************************************************************)
(* toc_structure_parser.py: map_pages_to_sections                          *)
(***************************************************************************)

\* d[k] = v on a dict d
DictSet(d, k, v) ==
    [x \in (DOMAIN d) \cup {k} |-> IF x = k THEN v ELSE d[x]]

\* sorted(pages_data, key=lambda x: x['page_number']), line 221: a stable
\* sort, by insertion
RECURSIVE InsertPage(_, _)
InsertPage(sorted, page) ==
    IF sorted = <<>> THEN <<page>>
    ELSE IF sorted[Len(sorted)].page_number <= page.page_number
         THEN Append(sorted, page)
         ELSE Append(InsertPage(SubSeq(sorted, 1, Len(sorted) - 1), page),
                     sorted[Len(sorted)])

\* a faulty fill loop that takes the pages in the order given
SortedAsGiven(pages_data) == pages_data

RECURSIVE SortedByPageNumber(_)
SortedByPageNumber(pages_data) ==
    IF pages_data = <<>> THEN <<>>
    ELSE InsertPage(SortedByPageNumber(SubSeq(pages_data, 1, Len(pages_data) - 1)),
                    pages_data[Len(pages_data)])

\* lines 203-210 for one page: the dict after the page
DetectSection(page_to_section, page) ==
    LET section == extract_section_from_text(page.original_text)
    IN  IF section # PyNone /\ section # <<>>
        THEN DictSet(page_to_section, page.page_number, section)
        ELSE page_to_section

\* lines 222-227 for the page numbered page_num: the dict and current_section
\* after the page
ForwardFillKeepsFirst(page_to_section, current_section, page_num) ==
    IF page_num \in DOMAIN page_to_section
    THEN [page_to_section |-> page_to_section,
          current_section |-> IF current_section = PyNone
                              THEN page_to_section[page_num]
                              ELSE current_section]
    ELSE IF current_section # PyNone /\ current_section # <<>>
    THEN [page_to_section |->
              DictSet(page_to_section, page_num, current_section),
          current_section |-> current_section]
    ELSE [page_to_section |-> page_to_section,
          current_section |-> current_section]

\* a faulty fill that carries the last section over a page that has its own
ForwardFillOverwrites(page_to_section, current_section, page_num) ==
    IF current_section # PyNone /\ current_section # <<>>
    THEN [page_to_section |->
              DictSet(page_to_section, page_num, current_section),
          current_section |-> current_section]
    ELSE [page_to_section |-> page_to_section,
          current_section |-> IF page_num \in DOMAIN page_to_section
                              THEN page_to_section[page_num]
                              ELSE current_section]

ForwardFill(page_to_section, current_section, page_num) ==
    IF page_num \in DOMAIN page_to_section
    THEN [page_to_section |-> page_to_section,
          current_section |-> page_to_section[page_num]]
    ELSE IF current_section # PyNone /\ current_section # <<>>
    THEN [page_to_section |->
              DictSet(page_to_section, page_num, current_section),
          current_section |-> current_section]
    ELSE [page_to_section |-> page_to_section,
          current_section |-> current_section]

(***************************************************************************)
(* The parser followed call by call: fn is the method called, arg its      *)
(* argument, ret its locals and, once it has returned, its value           *)
(***************************************************************************)
MaxSectionPieces == 3
MaxTocLines == 2
MaxSectionPages == 3

\* page texts: a number, a dot group, numbers with four and with five dot
\* groups, whitespace, a title, the enumeration comma, a number of eleven
\* digits
SectionPieces ==
    { <<"3">>, <<".", "1">>, <<"3", ".", "1", ".", "1", ".", "1", ".", "1">>,
      <<"3", ".", "1", ".", "1", ".", "1", ".", "1", ".", "1">>,
      <<" ">>, <<"\n">>, <<"a">>, <<"u3001">>,
      <<"1", "2", "3", "4", "5", "6", "7", "8", "9", "0", "1">> }

\* what follows on the page: nothing, a titled line '2 a', a chapter '2u7AE0'
SectionTails ==
    { <<>>, <<"\n", "2", " ", "a">>, <<"2", "u7AE0">> }

SectionTexts ==
    {ConcatAll(q) \o t :
        q \in SeqsUpTo(SectionPieces, MaxSectionPieces), t \in SectionTails}

\* lines '<number> <title> ....... <page>' of a table of contents
DotLeader == <<".", ".", ".", ".", ".", ".", ".">>
TocTitles ==
    { <<"u7CFB", "u7EDF", "u6982", "u8FF0">>,
      <<"u9879", "u76EE", "u80CC", "u666F">> }
TocNumbers == { <<"1">>, <<"1", ".", "1">>, <<"2", ".", "1", ".", "1">> }
TocPages == { <<"1">>, <<"2">> }

TocEntryLine(number, title, page) ==
    number \o <<" ">> \o title \o <<" ">> \o DotLeader \o <<" ">> \o page

TocEntries == [number : TocNumbers, title : TocTitles, page : TocPages]

\* the text of the entries q, one line each
TocTextOf(q) ==
    JoinLines([k \in 1..Len(q) |->
                  TocEntryLine(q[k].number, q[k].title, q[k].page)])

TocTexts == {TocTextOf(q) : q \in SeqsUpTo(TocEntries, MaxTocLines)}

\* pages_data: pages in any order, page numbers possibly repeated; a page
\* without the key original_text reads as one whose text holds no section
MapTexts ==
    { <<"z", "z">>, <<"1", ".", "1", " ", "a">>, <<"2", " ", "b">> }

PagesData ==
    SeqsUpTo([page_number : 1..MaxSectionPages, original_text : MapTexts],
             MaxSectionPages)

InitParser ==
    /\ ChunkIdle
    /\ PipelineIdle
    /\ ret = [pc |-> "call"]
    /\ \/ fn = "extract_section_from_text" /\ arg \in SectionTexts
       \/ fn = "parse_toc_text" /\ arg \in TocTexts
       \/ fn = "map_pages_to_sections" /\ arg \in PagesData

\* extract_section_from_text, lines 84-125
ExtractSectionFromText ==
    /\ fn = "extract_section_from_text"
    /\ ret.pc = "call"
    /\ ret' = [pc |-> "done", value |-> extract_section_from_text(arg)]
    /\ UNCHANGED <<fn, arg, chunkVars, chunks, pipeVars>>

\* parse_toc_text, lines 38-82; the items returned are also self.toc_items
ParseTocText ==
    /\ fn = "parse_toc_text"
    /\ ret.pc = "call"
    /\ ret' = [pc |-> "done", value |-> parse_toc_text(arg)]
    /\ UNCHANGED <<fn, arg, chunkVars, chunks, pipeVars>>

\* map_pages_to_sections, lines 196-200: the empty dict
MapBegin ==
    /\ fn = "map_pages_to_sections"
    /\ ret.pc = "call"
    /\ ret' = [pc |-> "detect", k |-> 1, page_to_section |-> <<>>,
               current_section |-> PyNone]
    /\ UNCHANGED <<fn, arg, chunkVars, chunks, pipeVars>>

\* lines 202-210: one page of the detection loop
MapDetect ==
    /\ fn = "map_pages_to_sections"
    /\ ret.pc = "detect"
    /\ ret.k <= Len(arg)
    /\ ret' = [ret EXCEPT !.k = @ + 1,
                          !.page_to_section = DetectSection(@, arg[ret.k])]
    /\ UNCHANGED <<fn, arg, chunkVars, chunks, pipeVars>>

\* lines 212-219: the detection loop is over, the fill loop starts
MapFillBegin ==
    /\ fn = "map_pages_to_sections"
    /\ ret.pc = "detect"
    /\ ret.k > Len(arg)
    /\ ret' = [ret EXCEPT !.pc = "fill", !.k = 1,
                          !.current_section = PyNone]
    /\ UNCHANGED <<fn, arg, chunkVars, chunks, pipeVars>>

\* lines 221-227: one page of the fill loop, in the order of the page numbers
MapFill ==
    /\ fn = "map_pages_to_sections"
    /\ ret.pc = "fill"
    /\ ret.k <= Len(arg)
    /\ LET page_num == SortedByPageNumber(arg)[ret.k].page_number
           after == ForwardFill(ret.page_to_section, ret.current_section,
                                page_num)
       IN  ret' = [ret EXCEPT !.k = @ + 1,
                              !.page_to_section = after.page_to_section,
                              !.current_section = after.current_section]
    /\ UNCHANGED <<fn, arg, chunkVars, chunks, pipeVars>>

\* lines 229-233: return page_to_section
MapReturn ==
    /\ fn = "map_pages_to_sections"
    /\ ret.pc = "fill"
    /\ ret.k > Len(arg)
    /\ ret' = [pc |-> "done", value |-> ret.page_to_section]
    /\ UNCHANGED <<fn, arg, chunkVars, chunks, pipeVars>>

NextParser ==
    \/ ExtractSectionFromText
    \/ ParseTocText
    \/ MapBegin
    \/ MapDetect
    \/ MapFillBegin
    \/ MapFill
    \/ MapReturn

SpecParser == InitParser /\ [][NextParser]_vars

\* the dot-separated number a text begins with: its longest prefix made of
\* digit runs joined by single dots (<<>> when it begins with no digit)
LeadingNumber(text) ==
    LET ends == {e \in 1..Len(text) : IsNumberPrefix(text, e)}
    IN  IF ends = {} THEN <<>> ELSE SubSeq(text, 1, SetMax(ends))

\* the text begins with a dot-separated number, whitespace and a title that
\* starts with something other than a digit
BeginsWithTitledNumber(text) ==
    LET e == Len(LeadingNumber(text))
    IN  /\ e > 0
        /\ e + 1 <= Len(text)
        /\ IsWs(text[e + 1])
        /\ SkipWs(text, e + 1) <= Len(text)
        /\ ~IsDigit(text[SkipWs(text, e + 1)])

\* C18: for a page text that begins with a dot-separated number followed by
\* whitespace and a non-digit title, extract_section_from_text returns that
\* leading number when it is valid (at most 10 characters and at most 4
\* dots); when it is not valid the leading number is not returned, and the
\* result is that of the later patterns.
C18_LeadingSectionReturned ==
    (fn = "extract_section_from_text" /\ ret.pc = "done"
        /\ BeginsWithTitledNumber(arg))
    => LET number == LeadingNumber(arg)
       IN  IF Len(number) <= 10 /\ Count(number, ".") <= 4
           THEN ret.value = number
           ELSE ret.value # number

\* '3.1.1.1.1 a' followed by the chapter '2u7AE0': the leading number won
\* over the chapter number that a later pattern matches
C18_Witness ==
    /\ fn = "extract_section_from_text"
    /\ ret.pc = "done"
    /\ arg = <<"3", ".", "1", ".", "1", ".", "1", ".", "1", " ", "a",
               "2", "u7AE0">>
    /\ ret.value = <<"3", ".", "1", ".", "1", ".", "1", ".", "1">>
    /\ BeginsWithTitledNumber(arg)
    /\ SectionPattern(arg, 3) = <<"2">>

\* C14: parse_toc_text turns each line '<number> <title> ....... <page>'
\* into one TOCItem with that number and title, level = dots in the number
\* + 1, the page as an integer, and as parent the number without its last
\* component (none for a level-1 number); so the two lines
\* '1 u7CFBu7EDFu6982u8FF0 ....... 1' and '1.1 u9879u76EEu80CCu666F ....... 2'
\* yield exactly two items.
C14_EveryTocLineParsed ==
    (fn = "parse_toc_text" /\ ret.pc = "done")
    => \A q \in SeqsUpTo(TocEntries, MaxTocLines) :
          arg = TocTextOf(q)
          => ret.value =
                [k \in 1..Len(q) |->
                    TOCItem(q[k].number, q[k].title,
                            Count(q[k].number, ".") + 1,
                            <<PyInt(q[k].page)>>,
                            ParentNumber(q[k].number))]

\* some page of pages_data with the number p holds a section number
DirectlyDetected(pages_data, p) ==
    \E k \in 1..Len(pages_data) :
        /\ pages_data[k].page_number = p
        /\ extract_section_from_text(pages_data[k].original_text) # PyNone

PageNumbers(pages_data) ==
    {pages_data[k].page_number : k \in 1..Len(pages_data)}

\* C13: in the map returned by map_pages_to_sections, a page p without a
\* directly detected section has the section s of a lower-numbered page q
\* whenever q has s and no page numbered between q and p has another
\* section.
C13_ForwardFilled ==
    (fn = "map_pages_to_sections" /\ ret.pc = "done")
    => \A p \in PageNumbers(arg) : \A q \in PageNumbers(arg) :
          ( /\ ~DirectlyDetected(arg, p)
            /\ q < p
            /\ q \in DOMAIN ret.value
            /\ \A r \in PageNumbers(arg) :
                  (q < r /\ r < p /\ r \in DOMAIN ret.value)
                  => ret.value[r] = ret.value[q] )
          => (p \in DOMAIN ret.value /\ ret.value[p] = ret.value[q])

\* pages given as 3, 1, 2 with the sections '1.1' on page 1 and '2' on
\* page 2: page 3 was filled with '2', the section of page 2
C13_Witness ==
    /\ fn = "map_pages_to_sections"
    /\ ret.pc = "done"
    /\ arg = << [page_number |-> 3, original_text |-> <<"z", "z">>],
                [page_number |-> 1,
                 original_text |-> <<"1", ".", "1", " ", "a">>],
                [page_number |-> 2, original_text |-> <<"2", " ", "b">>] >>
    /\ ~DirectlyDetected(arg, 3)
    /\ ret.value = (1 :> <<"1", ".", "1">>) @@ (2 :> <<"2">>) @@ (3 :> <<"2">>)

(***************************************************************************)
(* Claims about the handling paths of a page (V3)                          *)
(***************************************************************************)
\* the page the loop is at passed the pre-checks of lines 466-477, so the
\* tests of lines 480-490 are made on it
PageClassified ==
    /\ importOK
    /\ RawCheck(PageText) = PyNone
    /\ CleanCheck(safe_text_cleaning(PageText)) = PyNone

\* the handling paths that ran on the page: the handlers applied, and
\* "general" when its text went to the provider as a whole or in chunks
PathsRun ==
    {handlers[k] : k \in 1..Len(handlers)}
        \cup (IF unitState # "none" THEN {"general"} ELSE {})

HandlersRun(list) == {list[k] : k \in 1..Len(list)}

\* a step of a V3 page from the cleaned text (line 472) to the text that goes
\* to the provider, when process_toc_structure finds no item to translate
HandledAtOnce ==
    /\ pc = "cleaned"
    /\ pc' \in {"unit", "chunking"}

\* the step from the cleaned text into the items of process_toc_structure
HandledByItems ==
    /\ pc = "cleaned"
    /\ pc' = "toc"

\* the step of the last item of items[:5], which joins the lines
ItemsJoined ==
    /\ pc = "toc"
    /\ pc' # "toc"

SharedOffsets(k) ==
    Max2(0, Min2(chunks[k].end_index, chunks[k + 1].end_index)
              - Max2(chunks[k].start_index, chunks[k + 1].start_index))

\* C22 as stated: after a non-final chunk ending at e the next chunk starts
\* at max(e - overlap, 0), and the two share exactly overlap characters
\* whenever e >= overlap.
C22_NextStartClamped ==
    \A k \in 1..(Len(chunks) - 1) :
        LET e == chunks[k].end_index
        IN  /\ chunks[k + 1].start_index = Max2(e - cOverlap, 0)
            /\ e >= cOverlap => SharedOffsets(k) = cOverlap

\* C22, amended: after a non-final chunk ending at e the next chunk starts at
\* e - overlap when e > overlap and at e itself when e <= overlap.  The two
\* share exactly overlap characters when e > overlap, the first chunk is at
\* least overlap long and the second reaches e; they share none when
\* e <= overlap.
C22_NextStartStepsBack ==
    \A k \in 1..(Len(chunks) - 1) :
        LET e == chunks[k].end_index
        IN  /\ chunks[k].chunk_type = "split"
            /\ chunks[k + 1].start_index =
                  (IF e > cOverlap THEN e - cOverlap ELSE e)
            /\ (/\ e > cOverlap
                /\ e - chunks[k].start_index >= cOverlap
                /\ chunks[k + 1].end_index >= e)
               => SharedOffsets(k) = cOverlap
            /\ e <= cOverlap => SharedOffsets(k) = 0

\* a text cut in two chunks that share overlap >= 1 characters
C22_Witness ==
    /\ cpc = "done"
    /\ Len(chunks) = 2
    /\ cOverlap >= 1
    /\ chunks[1].end_index > cOverlap
    /\ chunks[2].start_index = chunks[1].end_index - cOverlap
    /\ SharedOffsets(1) = cOverlap

\* the next step of the run calls translator.translate
ProviderCallNext ==
    \/ pc \in {"unit", "formatted"}
    \/ /\ pc = "toc"
       /\ ~TocItemSkipped(items[Len(translated_items) + 1])

\* C23: between two consecutive provider calls of a run (attempts of one
\* unit, chunks of a page, TOC items, pages) time.sleep is called at least
\* once, also after an attempt that returned an empty or null result: the
\* run never reaches a provider call with no sleep since the previous one.
C23_SleepBetweenCalls ==
    ProviderCallNext => ~unpaced

\* the provider returned a result whose text is None, empty or only
\* whitespace
BlankReply(o) == o.kind = "result" /\ ~ReplyValid(o)

\* the call has returned what a translating loop accepted from lastReply
AcceptedReply == pc = "returned" /\ unitState = "ok"

\* the TOC item translated last, while lastReply is still its reply
LastTocItem == Min2(5, Len(translated_items))

TocItemReplied ==
    /\ items # <<>>
    /\ translated_items # <<>>
    /\ unitKind = "none"
    /\ lastReply.kind = "result"

\* C24: in every translating path (page text, chunk, formatted/TOC content,
\* TOC item title) a reply whose text is empty or only whitespace is a failed
\* attempt: it is never what the call returns and never put in a TOC line.
C24_BlankReplyFails ==
    /\ AcceptedReply => ReplyValid(lastReply)
    /\ (TocItemReplied /\ BlankReply(lastReply))
          => translated_items[LastTocItem] = items[LastTocItem].original_line

\* C25: a V3 page is split by smart_chunk_text(clean_text, 800, 100) exactly
\* when the text left by the cleaning and the TOC and table handling is
\* longer than 1000 characters.  A text of at most 1000 characters is one
\* unit; a longer one, once the chunks are returned, has at least two chunks
\* and one translation unit per chunk, taken in the order of the chunks.
C25_ChunkedIffLong ==
    /\ (version = "V3" /\ pc = "unit" /\ chunks # <<>>)
          => /\ Len(chunk_translations) < Len(chunks)
             /\ Len(clean_text) > 1000
    /\ (version = "V3" /\ pc = "returned" /\ unitState # "none")
          => /\ chunks # <<>> <=> Len(clean_text) > 1000
             /\ chunks = <<>>
                   => /\ unitKind = "text"
                      /\ chunk_translations = <<>>
             /\ chunks # <<>>
                   => /\ cText = clean_text /\ cMax = 800 /\ cOverlap = 100
                      /\ Len(chunks) >= 2
                      /\ unitKind = "chunk"
                      /\ Len(chunk_translations) = Len(chunks)

\* a page of 1001 characters returned from two chunks and two units
C25_Witness ==
    /\ version = "V3"
    /\ pc = "returned"
    /\ Len(clean_text) = 1001
    /\ Len(chunks) = 2
    /\ Len(chunk_translations) = 2
    /\ pageCalls >= 2

\* the offsets of the text, at most max_length, where a paragraph break
\* (two or more newlines) starts, and where a sentence mark, a comma or
\* semicolon, and a whitespace run (each with the whitespace after it) ends
BreaksWithin(text, max_length) ==
    {p \in ParagraphBreaks(text) : p <= max_length}
SentenceEndsWithin(text, max_length) ==
    {p \in EndsAfter(text, SentenceChars) : p <= max_length}
SeparatorEndsWithin(text, max_length) ==
    {p \in EndsAfter(text, CommaChars) : p <= max_length}
SpaceEndsWithin(text, max_length) ==
    {p \in SpaceEnds(text) : p <= max_length}

\* the split comes from step 1, 2, 3, 4 of find_best_split_point, or 5 for
\* the hard cut, by the priority of the claim
SplitStep(text, max_length) ==
    LET P == BreaksWithin(text, max_length)
        S == SentenceEndsWithin(text, max_length)
        C == SeparatorEndsWithin(text, max_length)
        W == SpaceEndsWithin(text, max_length)
    IN  IF P # {} /\ 10 * SetMax(P) > 7 * max_length THEN 1
        ELSE IF S # {} /\ 10 * SetMax(S) > 7 * max_length THEN 2
        ELSE IF C # {} /\ 10 * SetMax(C) > 8 * max_length THEN 3
        ELSE IF W # {} THEN 4
        ELSE 5

\* C26: find_best_split_point takes the first of these that exists: the last
\* paragraph break at or before max_length if it is past 70% of max_length
\* (the split is just after its two newlines), the last sentence end at or
\* before max_length if past 70%, the last comma or semicolon end at or
\* before max_length if past 80%, the last whitespace run ending at or
\* before max_length; it cuts at max_length only when there is none.
C26_SplitPriority ==
    (fn = "find_best_split_point" /\ ret.pc = "done")
    => LET text == arg.text
           max_length == arg.max_length
           step == SplitStep(text, max_length)
       IN  /\ step = 1
              => ret.value = SetMax(BreaksWithin(text, max_length)) + 2
           /\ step = 2
              => ret.value = SetMax(SentenceEndsWithin(text, max_length))
           /\ step = 3
              => ret.value = SetMax(SeparatorEndsWithin(text, max_length))
           /\ step = 4
              => ret.value = SetMax(SpaceEndsWithin(text, max_length))
           /\ step = 5 => ret.value = max_length

\* a text with a paragraph break at offset 3, a comma ending at offset 8 and
\* a whitespace run ending at offset 5, cut for max_length 10: the break is
\* not past 70%, the comma not past 80%, and the split is at the whitespace
C26_Witness ==
    /\ fn = "find_best_split_point"
    /\ ret.pc = "done"
    /\ arg.max_length = 10
    /\ BreaksWithin(arg.text, 10) = {3}
    /\ SentenceEndsWithin(arg.text, 10) = {}
    /\ SeparatorEndsWithin(arg.text, 10) = {8}
    /\ ret.value = 5

(***************************************************************************)
(* Claims about the map of pages to sections                               *)
(***************************************************************************)
\* the pages of pages_data, in the order given, each with its page number
\* and the section extract_section_from_text finds in its text
PageSections(pages_data) ==
    [k \in 1..Len(pages_data) |->
        [page_number |-> pages_data[k].page_number,
         section |-> extract_section_from_text(pages_data[k].original_text)]]

\* the page numbers on which a section is directly detected
DirectHits(found) ==
    {found[k].page_number :
        k \in {j \in 1..Len(found) : found[j].section # PyNone}}

\* the section detected on the page numbered p: that of the last page with
\* this number that holds one
DirectSection(found, p) ==
    found[SetMax({k \in 1..Len(found) :
                     found[k].page_number = p /\ found[k].section # PyNone})].section

\* C27: in the result of map_pages_to_sections a page numbered below every
\* page with a directly detected section is not in the map, and a page with
\* a directly detected section has that section: the fill loop has not
\* overwritten a direct hit.
C27_DirectHitsKept ==
    (fn = "map_pages_to_sections" /\ ret.pc = "done")
    => LET found == PageSections(arg)
           hits == DirectHits(found)
       IN  /\ \A p \in hits :
                 /\ p \in DOMAIN ret.value
                 /\ ret.value[p] = DirectSection(found, p)
           /\ \A p \in PageNumbers(arg) :
                 (\A h \in hits : p < h) => p \notin DOMAIN ret.value

\* pages 3, 1, 2 with no section on page 1, '1.1' on page 2 and '2' on
\* page 3: page 1 is not in the map, pages 2 and 3 have their own sections
C27_Witness ==
    /\ fn = "map_pages_to_sections"
    /\ ret.pc = "done"
    /\ arg = << [page_number |-> 3, original_text |-> <<"2", " ", "b">>],
                [page_number |-> 1, original_text |-> <<"z", "z">>],
                [page_number |-> 2,
                 original_text |-> <<"1", ".", "1", " ", "a">>] >>
    /\ DirectHits(PageSections(arg)) = {2, 3}
    /\ ret.value = (2 :> <<"1", ".", "1">>) @@ (3 :> <<"2">>)

\* no two pages of pages_data have the same page number
UniquePageNumbers(pages_data) ==
    \A j \in 1..Len(pages_data) : \A k \in 1..Len(pages_data) :
        pages_data[j].page_number = pages_data[k].page_number => j = k

\* the pages with their sections as a set, which is the same for every
\* permutation of the pages
PageSet(found) == {found[k] : k \in 1..Len(found)}

\* the map a set of uniquely numbered pages stands for: each page at or
\* above a page with a section has the section of the nearest such page at
\* or below it
MapOfPageSet(S) ==
    LET hits == {g \in S : g.section # PyNone}
        filled == {g \in S : \E h \in hits : h.page_number <= g.page_number}
        Nearest(p) ==
            CHOOSE h \in hits :
                /\ h.page_number <= p
                /\ \A g \in hits :
                      g.page_number <= p => g.page_number <= h.page_number
    IN  [p \in {g.page_number : g \in filled} |-> Nearest(p).section]

\* C30: when the page numbers are unique the result of map_pages_to_sections
\* is a function of the set of pages, so every permutation of the pages
\* gives the same map, and each value of the map is a section directly
\* detected on that page or on a lower-numbered page.
C30_OrderIndependent ==
    (fn = "map_pages_to_sections" /\ ret.pc = "done" /\ UniquePageNumbers(arg))
    => LET found == PageSections(arg)
       IN  /\ ret.value = MapOfPageSet(PageSet(found))
           /\ \A p \in DOMAIN ret.value :
                 \E k \in 1..Len(found) :
                    /\ found[k].page_number <= p
                    /\ found[k].section = ret.value[p]

\* pages given as 2, 3, 1 with the only section, '2', on page 1: all three
\* pages have it
C30_Witness ==
    /\ fn = "map_pages_to_sections"
    /\ ret.pc = "done"
    /\ UniquePageNumbers(arg)
    /\ arg = << [page_number |-> 2, original_text |-> <<"z", "z">>],
                [page_number |-> 3, original_text |-> <<"z", "z">>],
                [page_number |-> 1, original_text |-> <<"2", " ", "b">>] >>
    /\ ret.value = (1 :> <<"2">>) @@ (2 :> <<"2">>) @@ (3 :> <<"2">>)

(***************************************************************************)
(* Claims about process_toc_structure and safe_text_cleaning               *)
(***************************************************************************)
\* the line is what translate_toc_item can make of the item from a reply of
\* the provider
TranslatedLineOf(item, line) ==
    \E o \in Outcomes : ReplyTruthy(o) /\ line = TocLine(item, o.text)

\* C28: process_toc_structure returns one line for each item parse_toc_items
\* finds in the text, in the order of the items.  Only items among the first
\* five go to the provider, one call each; the line of every item after the
\* fifth is its original line.  A text without items is returned as it is,
\* with no provider call.
C28_OneLinePerItem ==
    (fn = "process_toc_structure" /\ ret.pc = "done")
    => LET parsed == parse_toc_items(arg)
           out == Lines(ret.value)
       IN  IF parsed = <<>>
           THEN ret.value = arg /\ ret.calls = 0
           ELSE /\ Len(out) = Len(parsed)
                /\ \A k \in 1..Len(parsed) :
                      \/ out[k] = parsed[k].original_line
                      \/ /\ k <= 5
                         /\ ~TocItemSkipped(parsed[k])
                         /\ TranslatedLineOf(parsed[k], out[k])
                /\ ret.calls <= 5
                /\ ret.calls =
                      Cardinality({k \in 1..Len(parsed) :
                                      k <= 5 /\ ~TocItemSkipped(parsed[k])})

\* six items with the title 'ab': five provider calls, the first line holds
\* the translated title, the sixth is the original line
C28_Witness ==
    /\ fn = "process_toc_structure"
    /\ ret.pc = "done"
    /\ Len(parse_toc_items(arg)) = 6
    /\ ret.calls = 5
    /\ Lines(ret.value)[1] = <<"1", ".", " ">> \o ReplyText
    /\ Lines(ret.value)[6] = <<"1", ".", "a", "b", ".">>

\* C29: safe_text_cleaning is idempotent: cleaning the text it returned
\* returns that text again, clean(clean(x)) = clean(x).
C29_CleaningIdempotent ==
    (fn = "safe_text_cleaning" /\ ret.pc = "done")
    => safe_text_cleaning(ret.value) = ret.value

\* four dots and a newline were cleaned to '...', which cleaning leaves as
\* it is
C29_Witness ==
    /\ fn = "safe_text_cleaning"
    /\ ret.pc = "done"
    /\ arg = <<".", ".", ".", ".", "\n">>
    /\ ret.value = <<".", ".", ".">>
    /\ safe_text_cleaning(ret.value) = ret.value

====
